---- MODULE Spec2Model ----
(***************************************************************************)
(* A model of the islands SSR pipeline of @valentinkolb/ssr:               *)
(*   - src/transform.ts : hash, getComponentType, componentWrapperPlugin,  *)
(*                        transform                                        *)
(*   - src/build.ts     : getComponentType, getSelector, buildIslands      *)
(*   - src/index.ts     : createConfig (html, plugin, ensureIslands)       *)
(*                                                                         *)
(* Strings of the program are sequences of one-character strings, so that  *)
(* includes / startsWith / split / join / the regular expressions of the   *)
(* source are computed character by character.                             *)
(***************************************************************************)
EXTENDS Integers, Sequences, FiniteSets, TLC

\* ------------------------------------------------------------------------
\* Strings
\* ------------------------------------------------------------------------

\* The printable ASCII characters, code 32 to 126, in order (code 96, the grave
\* accent, is written GRAVE: it cannot stand in a string of this language).
ASCII ==
  << " ", "!", "\"", "#", "$", "%", "&", "'", "(", ")", "*", "+", ",", "-", ".", "/",
     "0", "1", "2", "3", "4", "5", "6", "7", "8", "9", ":", ";", "<", "=", ">", "?",
     "@", "A", "B", "C", "D", "E", "F", "G", "H", "I", "J", "K", "L", "M", "N", "O",
     "P", "Q", "R", "S", "T", "U", "V", "W", "X", "Y", "Z", "[", "\\", "]", "^", "_",
     "GRAVE", "a", "b", "c", "d", "e", "f", "g", "h", "i", "j", "k", "l", "m", "n", "o",
     "p", "q", "r", "s", "t", "u", "v", "w", "x", "y", "z", "{", "|", "}", "~" >>

\* The byte a character is encoded as (UTF-8 of an ASCII character).
CharCode(c) == 31 + (CHOOSE i \in 1..Len(ASCII) : ASCII[i] = c)

HexDigits ==
  << "0", "1", "2", "3", "4", "5", "6", "7", "8", "9", "a", "b", "c", "d", "e", "f" >>

\* String.prototype.slice(from, to) with 0 <= from <= to (zero-based, end-exclusive).
Slice(s, from, to) ==
  LET hi == IF to > Len(s) THEN Len(s) ELSE to
  IN  IF from >= hi THEN << >> ELSE SubSeq(s, from + 1, hi)

\* String.prototype.startsWith
StartsWith(s, p) == Len(p) <= Len(s) /\ SubSeq(s, 1, Len(p)) = p

\* s ends with p (the $-anchored alternatives of the source's regular expressions)
EndsWith(s, p) == Len(p) <= Len(s) /\ SubSeq(s, Len(s) - Len(p) + 1, Len(s)) = p

\* String.prototype.includes
Includes(s, p) ==
  \E i \in 1..(Len(s) - Len(p) + 1) : SubSeq(s, i, i + Len(p) - 1) = p

\* String.prototype.split("/") : the segments between the separators.
RECURSIVE SplitFrom(_, _, _, _)
SplitFrom(s, sep, i, cur) ==
  IF i > Len(s) THEN << cur >>
  ELSE IF s[i] = sep THEN << cur >> \o SplitFrom(s, sep, i + 1, << >>)
  ELSE SplitFrom(s, sep, i + 1, Append(cur, s[i]))

Split(s, sep) == SplitFrom(s, sep, 1, << >>)

\* Array.prototype.join(sep) on an array of strings.
RECURSIVE JoinWith(_, _)
JoinWith(parts, sep) ==
  IF Len(parts) = 0 THEN << >>
  ELSE IF Len(parts) = 1 THEN parts[1]
  ELSE parts[1] \o sep \o JoinWith(Tail(parts), sep)

\* ------------------------------------------------------------------------
\* MD5 (RFC 1321), the digest behind hash().  A 32-bit word is a pair
\* <<hi, lo>> of 16-bit halves, so that no intermediate value exceeds 31 bits.
\* ------------------------------------------------------------------------

Add32(x, y) ==
  LET l == x[2] + y[2]
  IN  << (x[1] + y[1] + (l \div 65536)) % 65536, l % 65536 >>

Pow2(n) == 2 ^ n

\* rotate a word left by s bits, 0 < s < 32
RotL(x, s) ==
  LET y == IF s >= 16 THEN << x[2], x[1] >> ELSE x
      r == IF s >= 16 THEN s - 16 ELSE s
  IN  IF r = 0 THEN y
      ELSE << ((y[1] * Pow2(r)) % 65536) + (y[2] \div Pow2(16 - r)),
              ((y[2] * Pow2(r)) % 65536) + (y[1] \div Pow2(16 - r)) >>

\* The four auxiliary functions of MD5, bit by bit on 16-bit halves.
RECURSIVE MixF(_, _, _, _)
MixF(n, b, c, d) ==   \* (b AND c) OR (NOT b AND d)
  IF n = 0 THEN 0
  ELSE (IF b % 2 = 1 THEN c % 2 ELSE d % 2)
       + 2 * MixF(n - 1, b \div 2, c \div 2, d \div 2)

RECURSIVE MixG(_, _, _, _)
MixG(n, b, c, d) ==   \* (b AND d) OR (c AND NOT d)
  IF n = 0 THEN 0
  ELSE (IF d % 2 = 1 THEN b % 2 ELSE c % 2)
       + 2 * MixG(n - 1, b \div 2, c \div 2, d \div 2)

RECURSIVE MixH(_, _, _, _)
MixH(n, b, c, d) ==   \* b XOR c XOR d
  IF n = 0 THEN 0
  ELSE ((b + c + d) % 2) + 2 * MixH(n - 1, b \div 2, c \div 2, d \div 2)

RECURSIVE MixI(_, _, _, _)
MixI(n, b, c, d) ==   \* c XOR (b OR NOT d)
  IF n = 0 THEN 0
  ELSE (LET o == IF b % 2 = 1 \/ d % 2 = 0 THEN 1 ELSE 0 IN (c + o) % 2)
       + 2 * MixI(n - 1, b \div 2, c \div 2, d \div 2)

Md5K ==
  << <<55146, 42104>>, <<59591, 46934>>, <<9248, 28891>>, <<49597, 52974>>,
     <<62844, 4015>>, <<18311, 50730>>, <<43056, 17939>>, <<64838, 38145>>,
     <<27008, 39128>>, <<35652, 63407>>, <<65535, 23473>>, <<35164, 55230>>,
     <<27536, 4386>>, <<64920, 29075>>, <<42617, 17294>>, <<18868, 2081>>,
     <<63006, 9570>>, <<49216, 45888>>, <<9822, 23121>>, <<59830, 51114>>,
     <<54831, 4189>>, <<580, 5203>>, <<55457, 59009>>, <<59347, 64456>>,
     <<8673, 52710>>, <<49975, 2006>>, <<62677, 3463>>, <<17754, 5357>>,
     <<43491, 59653>>, <<64751, 41976>>, <<26479, 729>>, <<36138, 19594>>,
     <<65530, 14658>>, <<34673, 63105>>, <<28061, 24866>>, <<64997, 14348>>,
     <<42174, 59972>>, <<19422, 53161>>, <<63163, 19296>>, <<48831, 48240>>,
     <<10395, 32454>>, <<60065, 10234>>, <<54511, 12421>>, <<1160, 7429>>,
     <<55764, 53305>>, <<59099, 39397>>, <<8098, 31992>>, <<50348, 22117>>,
     <<62505, 8772>>, <<17194, 65431>>, <<43924, 9127>>, <<64659, 41017>>,
     <<25947, 22979>>, <<36620, 52370>>, <<65519, 62589>>, <<34180, 24017>>,
     <<28584, 32335>>, <<65068, 59104>>, <<41729, 17172>>, <<19976, 4513>>,
     <<63315, 32386>>, <<48442, 62005>>, <<10967, 53947>>, <<60294, 54161>> >>

Md5S ==
  << 7, 12, 17, 22, 7, 12, 17, 22, 7, 12, 17, 22, 7, 12, 17, 22,
     5, 9, 14, 20, 5, 9, 14, 20, 5, 9, 14, 20, 5, 9, 14, 20,
     4, 11, 16, 23, 4, 11, 16, 23, 4, 11, 16, 23, 4, 11, 16, 23,
     6, 10, 15, 21, 6, 10, 15, 21, 6, 10, 15, 21, 6, 10, 15, 21 >>

Md5Init ==
  << <<26437, 8961>>, <<61389, 43913>>, <<39098, 56574>>, <<4146, 21622>> >>

\* the message bytes with the padding: 0x80, zeros up to 56 mod 64, and the
\* bit length as a 64-bit little-endian number
Md5Pad(bytes) ==
  LET n     == Len(bytes)
      zeros == (119 - n) % 64
      bits  == 8 * n
  IN  bytes \o << 128 >> \o [i \in 1..zeros |-> 0]
      \o << bits % 256, (bits \div 256) % 256, (bits \div 65536) % 256,
            (bits \div 16777216) % 256, 0, 0, 0, 0 >>

\* word j (0..15) of block k (0-based) of the padded message, little-endian
Md5Word(msg, k, j) ==
  LET o == 64 * k + 4 * j
  IN  << msg[o + 3] + 256 * msg[o + 4], msg[o + 1] + 256 * msg[o + 2] >>

\* step i (0..63) of the compression of block k, on the four registers r
Md5Step(msg, k, i, r) ==
  LET a == r[1]
      b == r[2]
      c == r[3]
      d == r[4]
      f == IF i < 16 THEN << MixF(16, b[1], c[1], d[1]), MixF(16, b[2], c[2], d[2]) >>
           ELSE IF i < 32 THEN << MixG(16, b[1], c[1], d[1]), MixG(16, b[2], c[2], d[2]) >>
           ELSE IF i < 48 THEN << MixH(16, b[1], c[1], d[1]), MixH(16, b[2], c[2], d[2]) >>
           ELSE << MixI(16, b[1], c[1], d[1]), MixI(16, b[2], c[2], d[2]) >>
      g == IF i < 16 THEN i
           ELSE IF i < 32 THEN (5 * i + 1) % 16
           ELSE IF i < 48 THEN (3 * i + 5) % 16
           ELSE (7 * i) % 16
      t == Add32(Add32(a, f), Add32(Md5K[i + 1], Md5Word(msg, k, g)))
  IN  << d, Add32(b, RotL(t, Md5S[i + 1])), b, c >>

\* steps lo..hi-1 of the compression of block k, in order (the range is halved
\* so that the evaluation stays shallow)
RECURSIVE Md5Steps(_, _, _, _, _)
Md5Steps(msg, k, lo, hi, r) ==
  IF Len(r) # 4 \/ hi <= lo THEN r
  ELSE IF hi = lo + 1 THEN Md5Step(msg, k, lo, r)
  ELSE LET mid  == (lo + hi) \div 2
           half == Md5Steps(msg, k, lo, mid, r)
       IN  Md5Steps(msg, k, mid, hi, half)

\* the registers after a block: the sums of the registers before it and after
\* its 64 steps
AddRegs(r, q) ==
  << Add32(r[1], q[1]), Add32(r[2], q[2]), Add32(r[3], q[3]), Add32(r[4], q[4]) >>

RECURSIVE Md5Blocks(_, _, _)
Md5Blocks(msg, k, r) ==
  IF 64 * k >= Len(msg) THEN r
  ELSE Md5Blocks(msg, k + 1, AddRegs(r, Md5Steps(msg, k, 0, 64, r)))

HexByte(b) == << HexDigits[(b \div 16) + 1], HexDigits[(b % 16) + 1] >>

\* a word in the digest's byte order (little-endian), as hexadecimal digits
HexWord(w) ==
  HexByte(w[2] % 256) \o HexByte(w[2] \div 256) \o HexByte(w[1] % 256) \o HexByte(w[1] \div 256)

\* the MD5 digest of s (RFC 1321), as 32 hexadecimal digits
HexWords(r) == HexWord(r[1]) \o HexWord(r[2]) \o HexWord(r[3]) \o HexWord(r[4])

Md5Digest(s) ==
  HexWords(Md5Blocks(Md5Pad([i \in 1..Len(s) |-> CharCode(s[i])]), 0, Md5Init))

\* ------------------------------------------------------------------------
\* path (posix): join, dirname, as the module "path" computes them
\* ------------------------------------------------------------------------

SLASH == << "/" >>
DOT == << "." >>
DOTDOT == << ".", "." >>

\* process.cwd(), the working directory of the project
CWD == << "/", "a" >>

\* normalizeString: drop empty and "." segments, resolve ".." against the
\* segments kept so far; above the root ".." is kept only when allowed
RECURSIVE NormalizeSegs(_, _, _)
NormalizeSegs(segs, acc, allowAboveRoot) ==
  IF Len(segs) = 0 THEN acc
  ELSE
    LET g == Head(segs)
    IN  IF g = << >> \/ g = DOT THEN NormalizeSegs(Tail(segs), acc, allowAboveRoot)
        ELSE IF g = DOTDOT THEN
          IF Len(acc) > 0 /\ acc[Len(acc)] # DOTDOT
            THEN NormalizeSegs(Tail(segs), SubSeq(acc, 1, Len(acc) - 1), allowAboveRoot)
          ELSE IF allowAboveRoot THEN NormalizeSegs(Tail(segs), Append(acc, g), allowAboveRoot)
          ELSE NormalizeSegs(Tail(segs), acc, allowAboveRoot)
        ELSE NormalizeSegs(Tail(segs), Append(acc, g), allowAboveRoot)

\* path.normalize
Normalize(p) ==
  IF Len(p) = 0 THEN DOT
  ELSE
    LET isAbsolute == p[1] = "/"
        trailing   == p[Len(p)] = "/"
        body       == JoinWith(NormalizeSegs(Split(p, "/"), << >>, ~isAbsolute), SLASH)
    IN  IF Len(body) = 0
          THEN (IF isAbsolute THEN SLASH ELSE IF trailing THEN << ".", "/" >> ELSE DOT)
        ELSE (IF isAbsolute THEN SLASH ELSE << >>) \o body
             \o (IF trailing THEN SLASH ELSE << >>)

\* path.join(a, b)
join(a, b) ==
  LET joined == IF Len(a) = 0 THEN b
                ELSE IF Len(b) = 0 THEN a
                ELSE a \o SLASH \o b
  IN  IF Len(joined) = 0 THEN DOT ELSE Normalize(joined)

\* path.resolve(...paths): the arguments are taken from the right until one is
\* absolute, the working directory standing behind the first; empty arguments
\* are skipped
RECURSIVE ResolveFrom(_, _, _)
ResolveFrom(paths, i, resolvedPath) ==
  LET path == IF i >= 1 THEN paths[i] ELSE CWD
  IN  IF Len(path) = 0 THEN ResolveFrom(paths, i - 1, resolvedPath)
      ELSE IF path[1] = "/" \/ i = 0 THEN path \o SLASH \o resolvedPath
      ELSE ResolveFrom(paths, i - 1, path \o SLASH \o resolvedPath)

\* the result is normalised, without a trailing separator, and absolute
resolve(paths) ==
  SLASH \o JoinWith(NormalizeSegs(Split(ResolveFrom(paths, Len(paths), << >>), "/"), << >>, FALSE), SLASH)

\* the index (zero-based) of the last "/" that ends the directory part of p,
\* skipping trailing separators, or -1
RECURSIVE DirEnd(_, _, _)
DirEnd(p, i, matchedSlash) ==
  IF i < 1 THEN -1
  ELSE IF p[i + 1] = "/" THEN (IF ~matchedSlash THEN i ELSE DirEnd(p, i - 1, matchedSlash))
  ELSE DirEnd(p, i - 1, FALSE)

\* path.dirname
dirname(p) ==
  IF Len(p) = 0 THEN DOT
  ELSE
    LET hasRoot == p[1] = "/"
        end     == DirEnd(p, Len(p) - 1, TRUE)
    IN  IF end = -1 THEN (IF hasRoot THEN SLASH ELSE DOT)
        ELSE IF hasRoot /\ end = 1 THEN << "/", "/" >>
        ELSE Slice(p, 0, end)

\* p.split("/").pop()
Basename(p) == LET parts == Split(p, "/") IN parts[Len(parts)]

\* ------------------------------------------------------------------------
\* src/transform.ts: helpers
\* ------------------------------------------------------------------------

DOT_ISLAND == << ".", "i", "s", "l", "a", "n", "d" >>
DOT_CLIENT == << ".", "c", "l", "i", "e", "n", "t" >>
DOT_TSX == << ".", "t", "s", "x" >>
DOT_JSX == << ".", "j", "s", "x" >>
DOT_TS == << ".", "t", "s" >>
DOT_JS == << ".", "j", "s" >>
SEROVAL == << "s", "e", "r", "o", "v", "a", "l" >>
SERIALIZE == << "s", "e", "r", "i", "a", "l", "i", "z", "e" >>
SEROVAL_SERIALIZE ==
  << "_", "_", "s", "e", "r", "o", "v", "a", "l", "_" >> \o SERIALIZE
SOLID_ISLAND == << "s", "o", "l", "i", "d", "-", "i", "s", "l", "a", "n", "d" >>
SOLID_CLIENT == << "s", "o", "l", "i", "d", "-", "c", "l", "i", "e", "n", "t" >>
DATA_ID == << "d", "a", "t", "a", "-", "i", "d" >>
DATA_PROPS == << "d", "a", "t", "a", "-", "p", "r", "o", "p", "s" >>
DATA_FILE == << "d", "a", "t", "a", "-", "f", "i", "l", "e" >>

\* getComponentType of transform.ts: "island" | "client" | null
getComponentType(path) ==
  IF Includes(path, DOT_ISLAND) THEN "island"
  ELSE IF Includes(path, DOT_CLIENT) THEN "client"
  ELSE "null"

\* absPath.match(/\.(tsx|jsx|ts|js)$/)
HasSourceExt(p) ==
  EndsWith(p, DOT_TSX) \/ EndsWith(p, DOT_JSX) \/ EndsWith(p, DOT_TS) \/ EndsWith(p, DOT_JS)

\* variant: the import source resolved against the importing file, the
\* extension left as written
ResolveImportAsWritten(filename, source) ==
  IF StartsWith(source, DOT) THEN join(dirname(filename), source) ELSE source

\* the absolute path an import source is recorded under (ImportDeclaration visitor)
ResolveImport(filename, source) ==
  LET absPath == IF StartsWith(source, DOT) THEN join(dirname(filename), source) ELSE source
  IN  IF ~HasSourceExt(absPath) THEN absPath \o DOT_TSX ELSE absPath

\* ------------------------------------------------------------------------
\* The project the plugin runs in: the working directory, the files under it
\* and the import sources its server-side files use.
\* ------------------------------------------------------------------------

PAGE == << "/", "a", "/", "P", ".", "t", "s", "x" >>
NESTED == << "/", "a", "/", "u", "/", "N", ".", "i", "s", "l", "a", "n", "d", ".", "t", "s", "x" >>
COUNTER == << "/", "a", "/", "C", ".", "i", "s", "l", "a", "n", "d", ".", "t", "s", "x" >>
WIDGET == << "/", "a", "/", "W", ".", "c", "l", "i", "e", "n", "t", ".", "t", "s", "x" >>
SUBCOUNTER == << "/", "a", "/", "u", "/", "C", ".", "i", "s", "l", "a", "n", "d", ".", "t", "s", "x" >>
TAB == << "/", "a", "/", "T", ".", "i", "s", "l", "a", "n", "d", ".", "c", "l", "i", "e", "n", "t", ".", "t", "s", "x" >>
BUTTON == << "/", "a", "/", "B", ".", "t", "s", "x" >>
IMP_COUNTER == << ".", "/", "C", ".", "i", "s", "l", "a", "n", "d" >>
IMP_COUNTER_TSX == << ".", "/", "C", ".", "i", "s", "l", "a", "n", "d", ".", "t", "s", "x" >>
IMP_WIDGET == << ".", "/", "W", ".", "c", "l", "i", "e", "n", "t" >>
IMP_TAB == << ".", "/", "T", ".", "i", "s", "l", "a", "n", "d", ".", "c", "l", "i", "e", "n", "t" >>
IMP_BUTTON == << ".", "/", "B" >>
IMP_SUBCOUNTER == << ".", "/", "u", "/", "C", ".", "i", "s", "l", "a", "n", "d" >>
IMP_UP_COUNTER == << ".", ".", "/", "C", ".", "i", "s", "l", "a", "n", "d" >>
IMP_DETOUR_WIDGET == << ".", "/", "q", ".", "i", "s", "l", "a", "n", "d", "/", ".", ".", "/", "W", ".", "c", "l", "i", "e", "n", "t" >>
IMP_PACKAGE == << "p", "k", "g", "/", "X", ".", "i", "s", "l", "a", "n", "d" >>
\* two island files whose MD5 digests share their first eight hex digits
DMTK == << "/", "a", "/", "D", "M", "T", "K", ".", "i", "s", "l", "a", "n", "d", ".", "t", "s", "x" >>
DRRG == << "/", "a", "/", "D", "R", "R", "G", ".", "i", "s", "l", "a", "n", "d", ".", "t", "s", "x" >>
IMP_DMTK == << ".", "/", "D", "M", "T", "K", ".", "i", "s", "l", "a", "n", "d" >>
IMP_DRRG == << ".", "/", "D", "R", "R", "G", ".", "i", "s", "l", "a", "n", "d" >>

\* the component and regular files a project may hold
ComponentFiles == { COUNTER, WIDGET, SUBCOUNTER, TAB, DMTK, DRRG }
ProjectFiles == { PAGE, NESTED, BUTTON } \cup ComponentFiles

\* the files on the disk the island build scans
DiskFiles == { PAGE, BUTTON, COUNTER, SUBCOUNTER, WIDGET }

\* the files of the server bundle, which the plugin's onLoad is called for
ServerFiles == { p \in DiskFiles : EndsWith(p, DOT_TSX) /\ getComponentType(p) = "null" }

\* the server-side files the transform is handed
Filenames == { PAGE, NESTED }

ImportSources ==
  { IMP_COUNTER, IMP_COUNTER_TSX, IMP_WIDGET, IMP_TAB, IMP_BUTTON, IMP_SUBCOUNTER,
    IMP_UP_COUNTER, IMP_DETOUR_WIDGET, IMP_PACKAGE, IMP_DMTK, IMP_DRRG }

\* Bun.CryptoHasher is a function of its input: the digests of the paths this
\* project can hash are computed once
Md5Table ==
  { << p, Md5Digest(p) >> :
      p \in ProjectFiles \cup { ResolveImport(f, src) : f \in Filenames, src \in ImportSources } }

\* new Bun.CryptoHasher("md5").update(s).digest("hex")
Md5Lookup(known, s) ==
  IF known = { } THEN Md5Digest(s) ELSE (CHOOSE e \in known : TRUE)[2]

Md5Hex(s) == Md5Lookup({ e \in Md5Table : e[1] = s }, s)

\* variant: the whole digest, not its first eight characters
hashUnsliced(s) == Md5Hex(s)

\* variant: the id is taken over the file name alone
hashOfBasename(s) == Slice(Md5Hex(Basename(s)), 0, 8)

\* hash = (s) => new Bun.CryptoHasher("md5").update(s).digest("hex").slice(0, 8)
hash(s) == Slice(Md5Hex(s), 0, 8)

\* ------------------------------------------------------------------------
\* Syntax trees.  A source file is its Program body: a sequence of top-level
\* statements, each an ImportDeclaration or an ExportDefault whose expression
\* is a JSX tree.  Nodes are records with the field names of the Babel AST.
\* A JavaScript string handed to a helper is [type |-> "string", value |-> chars].
\* ------------------------------------------------------------------------

Str(chars) == [type |-> "string", value |-> chars]
Identifier(name) == [type |-> "Identifier", name |-> name]
NullNode == [type |-> "null"]

\* t.importDeclaration(specifiers, t.stringLiteral(source))
ImportDeclaration(specifiers, source) ==
  [type |-> "ImportDeclaration", specifiers |-> specifiers, source |-> source]

\* const jsx = (tag, attrs, children = []) => t.jsxElement(...)
jsx(tag, attrs, children) ==
  [type |-> "JSXElement", name |-> tag, attributes |-> attrs,
   children |-> children, selfClosing |-> (Len(children) = 0)]

\* const attr = (name, value) => t.jsxAttribute(...)
attr(name, value) ==
  [type |-> "JSXAttribute", name |-> name,
   value |-> IF value.type = "string"
               THEN [type |-> "StringLiteral", value |-> value.value]
               ELSE [type |-> "JSXExpressionContainer", expression |-> value]]

\* componentImports: a Map, kept as its entries in insertion order
MapHas(m, k) == \E i \in 1..Len(m) : m[i].key = k
MapGet(m, k) == m[CHOOSE i \in 1..Len(m) : m[i].key = k].value
MapSet(m, k, v) ==
  IF MapHas(m, k)
    THEN [i \in 1..Len(m) |-> IF m[i].key = k THEN [key |-> k, value |-> v] ELSE m[i]]
    ELSE Append(m, [key |-> k, value |-> v])

\* the two statements the Program visitor unshifts:
\*   import { serialize } from "seroval"; const __seroval_serialize = serialize;
SerovalImport ==
  ImportDeclaration(
    << [type |-> "ImportSpecifier", imported |-> SERIALIZE, local |-> SERIALIZE] >>,
    SEROVAL)

SerovalBinding ==
  [type |-> "VariableDeclaration", declKind |-> "const",
   id |-> SEROVAL_SERIALIZE, init |-> Identifier(SERIALIZE)]

\* the props object of a usage site: one property per JSXAttribute
PropsOf(attributes) ==
  LET IsJSXAttribute(a) == a.type = "JSXAttribute"
      named == SelectSeq(attributes, IsJSXAttribute)
  IN  [type |-> "ObjectExpression",
       properties |->
         [i \in 1..Len(named) |->
            [type |-> "ObjectProperty", key |-> Identifier(named[i].name),
             value |-> IF named[i].value.type = "JSXExpressionContainer"
                         THEN named[i].value.expression
                       ELSE IF named[i].value.type = "null"
                         THEN [type |-> "BooleanLiteral", value |-> TRUE]
                       ELSE named[i].value]]]

\* variant: the serialized props ahead of the id among the attributes
WrapperPropsFirst(node, component, dev) ==
  LET id         == hash(component.path)
      wrapperTag == IF component.type = "island" THEN SOLID_ISLAND ELSE SOLID_CLIENT
      props      == PropsOf(node.attributes)
      children   == IF component.type = "island" THEN << node >> ELSE << >>
      file       == Basename(component.path)
      attrs      == << attr(DATA_PROPS,
                            [type |-> "CallExpression",
                             callee |-> Identifier(SEROVAL_SERIALIZE),
                             arguments |-> << props >>]),
                       attr(DATA_ID, Str(id)) >>
                    \o (IF dev THEN << attr(DATA_FILE, Str(file)) >> ELSE << >>)
  IN  jsx(wrapperTag, attrs, children)

\* JSXElement visitor, the part after the lookup: the wrapper that replaces
\* the usage node of a recorded component
Wrapper(node, component, dev) ==
  LET id         == hash(component.path)
      wrapperTag == IF component.type = "island" THEN SOLID_ISLAND ELSE SOLID_CLIENT
      props      == PropsOf(node.attributes)
      children   == IF component.type = "island" THEN << node >> ELSE << >>
      file       == Basename(component.path)
      attrs      == << attr(DATA_ID, Str(id)),
                       attr(DATA_PROPS,
                            [type |-> "CallExpression",
                             callee |-> Identifier(SEROVAL_SERIALIZE),
                             arguments |-> << props >>]) >>
                    \o (IF dev THEN << attr(DATA_FILE, Str(file)) >> ELSE << >>)
  IN  jsx(wrapperTag, attrs, children)

\* variant: the node put back as the child of its wrapper is visited again
VisitNodeRevisit(node, componentImports, dev) ==
  IF node.type = "JSXElement" /\ MapHas(componentImports, node.name)
    THEN [Wrapper(node, MapGet(componentImports, node.name), dev) EXCEPT
            !.children = [i \in 1..Len(@) |->
                            Wrapper(@[i], MapGet(componentImports, node.name), dev)]]
    ELSE node

\* variant: the lookup ignores the tag name and takes the first recorded import
VisitNodeFirstImport(node, componentImports, dev) ==
  IF node.type = "JSXElement" /\ Len(componentImports) > 0
    THEN Wrapper(node, componentImports[1].value, dev)
    ELSE node

\* the traversal below a node: the JSXElement visitor on entering an element;
\* a replaced node is skipped (path.skip()), any other element is descended
\* into, attributes first, then children
RECURSIVE VisitNode(_, _, _)
VisitNode(node, componentImports, dev) ==
  IF node.type = "JSXElement" THEN
    IF MapHas(componentImports, node.name)
      THEN Wrapper(node, MapGet(componentImports, node.name), dev)
    ELSE
      [node EXCEPT
        !.attributes =
          [i \in 1..Len(node.attributes) |->
             IF node.attributes[i].type = "JSXAttribute"
                /\ node.attributes[i].value.type = "JSXExpressionContainer"
               THEN [node.attributes[i] EXCEPT
                       !.value.expression =
                         VisitNode(node.attributes[i].value.expression, componentImports, dev)]
               ELSE node.attributes[i]],
        !.children =
          [i \in 1..Len(node.children) |-> VisitNode(node.children[i], componentImports, dev)]]
  ELSE node

\* variant: the binding of the first specifier is recorded, whatever its kind
VisitImportAnySpecifier(decl, st, filename) ==
  IF getComponentType(decl.source) = "null" THEN st
  ELSE [st EXCEPT
          !.warnings = IF getComponentType(filename) # "null"
                         THEN Append(@, [parent |-> getComponentType(filename),
                                         child |-> getComponentType(decl.source),
                                         source |-> decl.source])
                       ELSE @,
          !.componentImports =
            MapSet(@, decl.specifiers[1].local,
                   [path |-> ResolveImport(filename, decl.source),
                    type |-> getComponentType(decl.source)])]

\* ImportDeclaration visitor: the state after visiting one import declaration
VisitImport(decl, st, filename) ==
  LET source     == decl.source
      type       == getComponentType(source)
      parentType == getComponentType(filename)
      warned     == IF parentType # "null"
                      THEN Append(st.warnings,
                                  [parent |-> parentType, child |-> type, source |-> source])
                      ELSE st.warnings
      IsDefault(sp) == sp.type = "ImportDefaultSpecifier"
      defaults   == SelectSeq(decl.specifiers, IsDefault)
  IN  IF type = "null" THEN st
      ELSE IF Len(defaults) = 0 THEN [st EXCEPT !.warnings = warned]
      ELSE [st EXCEPT
              !.warnings = warned,
              !.componentImports =
                MapSet(@, defaults[1].local,
                       [path |-> ResolveImport(filename, source), type |-> type])]

\* programPath.traverse: the statements in source order, from statement i
RECURSIVE Traverse(_, _, _, _, _)
Traverse(body, i, st, filename, dev) ==
  IF i > Len(body) THEN st
  ELSE
    LET n   == body[i]
        st1 == IF n.type = "ImportDeclaration"
                 THEN [VisitImport(n, st, filename) EXCEPT !.out = Append(@, n)]
               ELSE IF n.type = "ExportDefault"
                 THEN [st EXCEPT !.out =
                         Append(@, [n EXCEPT !.expression =
                                      VisitNode(n.expression, st.componentImports, dev)])]
               ELSE [st EXCEPT !.out = Append(@, n)]
    IN  Traverse(body, i + 1, st1, filename, dev)

\* componentWrapperPlugin(filename, dev), run on a Program: the Program visitor
componentWrapperPlugin(program, filename, dev) ==
  Traverse(<< SerovalImport, SerovalBinding >> \o program, 1,
           [componentImports |-> << >>, warnings |-> << >>, out |-> << >>],
           filename, dev)

\* transform(source, filename, mode, dev): the wrapper pass in "ssr" mode only,
\* then the Solid compilation of the result with generate: mode.  An empty
\* result of the second pass throws.
\* variant: the wrapper pass runs whatever the mode
transformAnyMode(source, filename, mode, dev) ==
  [ok |-> TRUE, generate |-> mode,
   code |-> componentWrapperPlugin(source, filename, dev).out,
   warnings |-> componentWrapperPlugin(source, filename, dev).warnings]

SolidPass(pass1, mode) ==
  [ok |-> Len(pass1.out) > 0, generate |-> mode, code |-> pass1.out,
   warnings |-> pass1.warnings]

transform(source, filename, mode, dev) ==
  SolidPass(IF mode = "ssr"
              THEN componentWrapperPlugin(source, filename, dev)
              ELSE [componentImports |-> << >>, warnings |-> << >>, out |-> source],
            mode)

\* ------------------------------------------------------------------------
\* solid-js/web renderToString, as far as html() depends on it: an element is
\* written as its tag, its attributes in source order, its children and its
\* closing tag; a component (capitalised name) renders markup of its own, kept
\* opaque, around the children it is given; the serialized props are kept
\* opaque.
\* ------------------------------------------------------------------------

UpperCase ==
  { "A", "B", "C", "D", "E", "F", "G", "H", "I", "J", "K", "L", "M",
    "N", "O", "P", "Q", "R", "S", "T", "U", "V", "W", "X", "Y", "Z" }

IsComponentName(name) == Len(name) > 0 /\ name[1] \in UpperCase

RECURSIVE Concat(_)
Concat(parts) == IF Len(parts) = 0 THEN << >> ELSE Head(parts) \o Concat(Tail(parts))

RenderAttr(a) ==
  IF a.type # "JSXAttribute" THEN << >>
  ELSE << " " >> \o a.name \o << "=", "\"" >>
       \o (IF a.value.type = "StringLiteral" THEN a.value.value ELSE << "{", "}" >>)
       \o << "\"" >>

RECURSIVE renderToString(_)
renderToString(node) ==
  IF node.type = "JSXText" THEN node.value
  ELSE IF node.type # "JSXElement" THEN << >>
  ELSE IF IsComponentName(node.name)
    THEN << "[" >> \o node.name \o << "]" >>
         \o Concat([i \in 1..Len(node.children) |-> renderToString(node.children[i])])
  ELSE << "<" >> \o node.name
       \o Concat([i \in 1..Len(node.attributes) |-> RenderAttr(node.attributes[i])])
       \o << ">" >>
       \o Concat([i \in 1..Len(node.children) |-> renderToString(node.children[i])])
       \o << "<", "/" >> \o node.name \o << ">" >>

\* ------------------------------------------------------------------------
\* src/index.ts: html()
\* ------------------------------------------------------------------------

OPEN_SOLID == 
  << "<", "s", "o", "l", "i", "d", "-" >>
ISLAND == 
  << "i", "s", "l", "a", "n", "d" >>
CLIENT == 
  << "c", "l", "i", "e", "n", "t" >>
SP_DATA_ID_EQ == 
  << " ", "d", "a", "t", "a", "-", "i", "d", "=", "\"" >>
SCRIPT_OPEN == 
  << "<", "s", "c", "r", "i", "p", "t", " ", "t", "y", "p", "e", "=", "\"", "m", "o",
     "d", "u", "l", "e", "\"", " ", "s", "r", "c", "=", "\"", "/", "_", "s", "s", "r",
     "/" >>
SCRIPT_CLOSE == 
  << ".", "j", "s", "\"", ">", "<", "/", "s", "c", "r", "i", "p", "t", ">" >>
DEV_CLIENT_SCRIPT == 
  << "<", "s", "c", "r", "i", "p", "t", " ", "t", "y", "p", "e", "=", "\"", "m", "o",
     "d", "u", "l", "e", "\"", " ", "s", "r", "c", "=", "\"", "/", "_", "s", "s", "r",
     "/", "_", "c", "l", "i", "e", "n", "t", ".", "j", "s", "\"", ">", "<", "/", "s",
     "c", "r", "i", "p", "t", ">" >>
NEWLINE == << "\n" >>

\* the text of s from position i (one-based) starts with p
At(s, i, p) == i + Len(p) - 1 <= Len(s) /\ SubSeq(s, i, i + Len(p) - 1) = p

\* the length of the longest run of characters other than the double quote
\* that starts at position i: the greedy [^"]+
RunEnd(s, i) == CHOOSE j \in i..(Len(s) + 1) :
                  /\ j > Len(s) \/ s[j] = "\""
                  /\ \A k \in i..(j - 1) : s[k] # "\""

RunLen(s, i) == IF i > Len(s) THEN 0 ELSE RunEnd(s, i) - i

\* one attempt of /<solid-(island|client) data-id="([^"]+)"/ at position i:
\* the match [kind, id, next position] or no match
MatchAt(s, i) ==
  LET kind  == IF At(s, i + Len(OPEN_SOLID), ISLAND) THEN "island"
               ELSE IF At(s, i + Len(OPEN_SOLID), CLIENT) THEN "client"
               ELSE "none"
      j     == i + Len(OPEN_SOLID) + Len(ISLAND)
      k     == j + Len(SP_DATA_ID_EQ)
      n     == RunLen(s, k)
  IN  IF At(s, i, OPEN_SOLID) /\ kind # "none" /\ At(s, j, SP_DATA_ID_EQ)
         /\ n > 0 /\ k + n <= Len(s) /\ s[k + n] = "\""
        THEN [found |-> TRUE, kind |-> kind, id |-> SubSeq(s, k, k + n - 1), next |-> k + n + 1]
        ELSE [found |-> FALSE, kind |-> "none", id |-> << >>, next |-> i + 1]

\* body.matchAll(...) from position i: the matches [kind, id] from left to
\* right, each search resuming behind the previous match
RECURSIVE MatchAll(_, _)
MatchRest(s, m) == << [kind |-> m.kind, id |-> m.id] >> \o MatchAll(s, m.next)

MatchFirst(s, starts) ==
  IF starts = { } THEN << >>
  ELSE MatchRest(s, MatchAt(s, CHOOSE j \in starts : \A k \in starts : j <= k))

MatchAll(s, i) == MatchFirst(s, { j \in i..Len(s) : MatchAt(s, j).found })

\* [...new Set(ids)]: the distinct values in the order of their first occurrence
RECURSIVE SetOrder(_, _)
SetOrder(ids, seen) ==
  IF Len(ids) = 0 THEN seen
  ELSE IF \E i \in 1..Len(seen) : seen[i] = Head(ids) THEN SetOrder(Tail(ids), seen)
  ELSE SetOrder(Tail(ids), Append(seen, Head(ids)))

\* matches.filter((m) => m[1] === kind).map((m) => m[2])
IdsOfKind(matches, kind) ==
  LET IsKind(m) == m.kind = kind
      kept == SelectSeq(matches, IsKind)
  IN  [i \in 1..Len(kept) |-> kept[i].id]

ScriptTag(id) == SCRIPT_OPEN \o id \o SCRIPT_CLOSE

\* html(element): the body and the scripts handed to the template
Scripts(islandIds, dev) ==
  JoinWith([i \in 1..Len(islandIds) |-> ScriptTag(islandIds[i])], NEWLINE)
  \o (IF dev THEN NEWLINE \o DEV_CLIENT_SCRIPT ELSE << >>)

\* variant: the client ids ahead of the island ids
IslandIdsClientsFirst(matches) ==
  SetOrder(IdsOfKind(matches, "client"), << >>) \o SetOrder(IdsOfKind(matches, "island"), << >>)

IslandIds(matches) ==
  SetOrder(IdsOfKind(matches, "island"), << >>) \o SetOrder(IdsOfKind(matches, "client"), << >>)

Page(body, dev) == [body |-> body, scripts |-> Scripts(IslandIds(MatchAll(body, 1)), dev)]

html(element, dev) == Page(renderToString(element), dev)

\* ------------------------------------------------------------------------
\* src/build.ts
\* ------------------------------------------------------------------------

DOT_CLIENT_DOT == DOT_CLIENT \o DOT

\* getComponentType of build.ts
buildGetComponentType(path) ==
  IF Includes(path, DOT_CLIENT_DOT) THEN "client" ELSE "island"

SEL_ISLAND == 
  << "s", "o", "l", "i", "d", "-", "i", "s", "l", "a", "n", "d", "[", "d", "a", "t",
     "a", "-", "i", "d", "=", "\"" >>
SEL_CLIENT == 
  << "s", "o", "l", "i", "d", "-", "c", "l", "i", "e", "n", "t", "[", "d", "a", "t",
     "a", "-", "i", "d", "=", "\"" >>
SEL_END == 
  << "\"", "]" >>

\* getSelector(type, id)
getSelector(type, id) ==
  IF type = "island" THEN SEL_ISLAND \o id \o SEL_END ELSE SEL_CLIENT \o id \o SEL_END

\* const components = files.map(...)
Component(componentPath, id, type) ==
  [path |-> componentPath, id |-> id, type |-> type, selector |-> getSelector(type, id)]

Components(files) ==
  [i \in 1..Len(files) |->
     Component(files[i], hash(files[i]), buildGetComponentType(files[i]))]

\* filenameMap: filename -> paths, in insertion order
RECURSIVE FilenameMap(_, _, _)
FilenameMap(components, i, m) ==
  IF i > Len(components) THEN m
  ELSE LET filename == Basename(components[i].path)
           paths    == IF MapHas(m, filename) THEN MapGet(m, filename) ELSE << >>
       IN  FilenameMap(components, i + 1, MapSet(m, filename, Append(paths, components[i].path)))

\* relative(from, to) of node:path, for a path below from
relative(from, to) ==
  IF StartsWith(to, from \o SLASH) THEN SubSeq(to, Len(from) + 2, Len(to)) ELSE to

\* variant: a warning for every file name, repeated or not
DuplicateWarningsAll(components) ==
  LET m == FilenameMap(components, 1, << >>)
  IN  [i \in 1..Len(m) |->
         [level |-> "warn", filename |-> m[i].key,
          paths |-> [j \in 1..Len(m[i].value) |-> relative(CWD, m[i].value[j])]]]

\* the console.warn groups of the duplicate-filename check
DuplicateWarnings(components) ==
  LET m == FilenameMap(components, 1, << >>)
      IsDup(e) == Len(e.value) > 1
      dups == SelectSeq(m, IsDup)
  IN  [i \in 1..Len(dups) |->
         [level |-> "warn", filename |-> dups[i].key,
          paths |-> [j \in 1..Len(dups[i].value) |-> relative(CWD, dups[i].value[j])]]]

\* build.onResolve({ filter: /^[a-f0-9]{8}$/ })
IsVirtualId(p) ==
  Len(p) = 8 /\ \A i \in 1..8 : \E d \in 1..16 : HexDigits[d] = p[i]

\* build.onLoad({ namespace: "island" }): the hydration module of entrypoint id
HydrationModule(components, id) ==
  LET IsId(c) == c.id = id
      found == SelectSeq(components, IsId)
  IN  IF Len(found) = 0 THEN [empty |-> TRUE, imports |-> << >>, selector |-> << >>]
      ELSE [empty |-> FALSE, imports |-> found[1].path, selector |-> found[1].selector]

\* ------------------------------------------------------------------------
\* The source files handed to the transform: import declarations and one
\* default export whose expression is the JSX the file renders.
\* ------------------------------------------------------------------------

N_COUNTER == << "C", "o", "u", "n", "t", "e", "r" >>
N_COUNTER_TSX == << "C", "o", "u", "n", "t", "e", "r", "X" >>
N_WIDGET == << "W", "i", "d", "g", "e", "t" >>
N_TAB == << "T", "a", "b" >>
N_BUTTON == << "B", "u", "t", "t", "o", "n" >>
N_SUB == << "S", "u", "b" >>
N_UP == << "U", "p" >>
N_DETOUR == << "D", "e", "t", "o", "u", "r" >>
N_PACKAGE == << "P", "k", "g" >>
N_OTHER == << "O", "t", "h", "e", "r" >>
N_DMTK == << "D", "m", "t", "k" >>
N_DRRG == << "D", "r", "r", "g" >>
N_NS == << "N", "s" >>
T_DIV == << "d", "i", "v" >>
T_SPAN == << "s", "p", "a", "n" >>
A_LABEL == << "l", "a", "b", "e", "l" >>
A_DISABLED == << "d", "i", "s", "a", "b", "l", "e", "d" >>
A_COUNT == << "c", "o", "u", "n", "t" >>
A_ICON == << "i", "c", "o", "n" >>
V_N == << "n" >>
V_REST == << "r", "e", "s", "t" >>
TXT_HI == << "h", "i" >>

MaxImports == 2

ImportDefault(local, source) ==
  ImportDeclaration(<< [type |-> "ImportDefaultSpecifier", local |-> local] >>, source)

ImportNamed(local, source) ==
  ImportDeclaration(<< [type |-> "ImportSpecifier", imported |-> local, local |-> local] >>, source)

\* import * as local from "source"
ImportNamespace(local, source) ==
  ImportDeclaration(<< [type |-> "ImportNamespaceSpecifier", local |-> local] >>, source)

ExportDefault(expression) == [type |-> "ExportDefault", expression |-> expression]

Text(chars) == [type |-> "JSXText", value |-> chars]

Element(name, attributes, children) ==
  [type |-> "JSXElement", name |-> name, attributes |-> attributes,
   children |-> children, selfClosing |-> (Len(children) = 0)]

\* label="hi", the boolean shorthand disabled, count={n} and {...rest}
SomeAttributes ==
  << [type |-> "JSXAttribute", name |-> A_LABEL,
      value |-> [type |-> "StringLiteral", value |-> TXT_HI]],
     [type |-> "JSXAttribute", name |-> A_DISABLED, value |-> NullNode],
     [type |-> "JSXAttribute", name |-> A_COUNT,
      value |-> [type |-> "JSXExpressionContainer", expression |-> Identifier(V_N)]],
     [type |-> "JSXSpreadAttribute", argument |-> Identifier(V_REST)] >>

ImportDecls ==
  << ImportDefault(N_COUNTER, IMP_COUNTER),
     ImportDefault(N_COUNTER_TSX, IMP_COUNTER_TSX),
     ImportDefault(N_WIDGET, IMP_WIDGET),
     ImportDefault(N_TAB, IMP_TAB),
     ImportDefault(N_BUTTON, IMP_BUTTON),
     ImportDefault(N_SUB, IMP_SUBCOUNTER),
     ImportDefault(N_UP, IMP_UP_COUNTER),
     ImportDefault(N_DETOUR, IMP_DETOUR_WIDGET),
     ImportDefault(N_PACKAGE, IMP_PACKAGE),
     ImportNamed(N_OTHER, IMP_COUNTER),
     ImportDefault(N_DMTK, IMP_DMTK),
     ImportDefault(N_DRRG, IMP_DRRG),
     ImportNamespace(N_NS, IMP_WIDGET) >>

\* the import lists of a file: up to MaxImports of the declarations
ImportLists ==
  LET Picks(n) == { q \in [1..n -> 1..Len(ImportDecls)] :
                      \A i \in 1..n : \A j \in 1..n : i < j => q[i] < q[j] }
  IN  UNION { { [i \in 1..n |-> ImportDecls[q[i]]] : q \in Picks(n) } : n \in 0..MaxImports }

LocalOf(decl) == decl.specifiers[1].local

Shapes == { "each", "twice", "nested", "none" }

\* the JSX a file renders, over the names it imports:
\*   each    <div><A/><B/></div>
\*   twice   <div><A/><A/><B/></div>
\*   nested  <div><A label="hi" disabled count={n} {...rest} icon={<B/>}><span>hi</span><B/></A></div>
\*   none    <div>hi</div>
\* icon={<B/>}, for a file with a second import
IconOf(usages) ==
  IF Len(usages) < 2 THEN << >>
  ELSE << [type |-> "JSXAttribute", name |-> A_ICON,
           value |-> [type |-> "JSXExpressionContainer", expression |-> usages[2]]] >>

Rendered(imports, shape) ==
  LET usages == [i \in 1..Len(imports) |-> Element(LocalOf(imports[i]), << >>, << >>)]
  IN  IF shape = "none" \/ Len(imports) = 0 THEN Element(T_DIV, << >>, << Text(TXT_HI) >>)
      ELSE IF shape = "each" THEN Element(T_DIV, << >>, usages)
      ELSE IF shape = "twice" THEN Element(T_DIV, << >>, << usages[1] >> \o usages)
      ELSE Element(T_DIV, << >>,
                   << Element(LocalOf(imports[1]), SomeAttributes \o IconOf(usages),
                              << Element(T_SPAN, << >>, << Text(TXT_HI) >>) >> \o Tail(usages)) >>)

\* a source file: the imports above the export, or (imports are hoisted) below it
SourceFile(imports, shape, importsFirst) ==
  IF importsFirst THEN imports \o << ExportDefault(Rendered(imports, shape)) >>
  ELSE << ExportDefault(Rendered(imports, shape)) >> \o imports

SourceFiles ==
  { SourceFile(l, sh, o) : l \in ImportLists, sh \in Shapes, o \in BOOLEAN }

\* the (mode, dev) pairs transform is called with: the plugin's onLoad passes
\* "ssr" and the configured dev flag, the island build passes "dom" alone
TransformModes ==
  { [mode |-> "ssr", dev |-> FALSE], [mode |-> "ssr", dev |-> TRUE], [mode |-> "dom", dev |-> FALSE] }

\* the expression of the default export of a program
DefaultExport(code) ==
  LET IsExport(n) == n.type = "ExportDefault"
  IN  SelectSeq(code, IsExport)[1].expression

\* ------------------------------------------------------------------------
\* src/index.ts: the plugin. src/build.ts: buildIslands.
\* ------------------------------------------------------------------------

NumCalls == 2
MaxFiles == 2

T_BUTTON == << "b", "u", "t", "t", "o", "n" >>
JS_EXT == << ".", "j", "s" >>

\* COMPONENT_PATTERN = "**/*.{island,client}.tsx", scanned from the working
\* directory with absolute: true
GlobMatch(p) ==
  /\ StartsWith(p, CWD \o SLASH)
  /\ (EndsWith(p, DOT_ISLAND \o DOT_TSX) \/ EndsWith(p, DOT_CLIENT \o DOT_TSX))

\* what a scan can yield: up to MaxFiles matching files, in any order
ScanResults ==
  UNION { { q \in [1..n -> { p \in DiskFiles : GlobMatch(p) }] :
              \A i \in 1..n : \A j \in 1..n : i # j => q[i] # q[j] } : n \in 0..MaxFiles }

\* build.onResolve({ filter: /\.(island|client)$/ }, ...) of the plugin
OnResolveFilter(p) == EndsWith(p, DOT_ISLAND) \/ EndsWith(p, DOT_CLIENT)

OnResolve(importer, p) ==
  IF StartsWith(p, DOT) THEN join(dirname(importer), p \o DOT_TSX) ELSE p \o DOT_TSX

\* the file the bundler loads for an import: the plugin's answer where its
\* filter matches, else the file a relative source with its extension names
BundlerResolve(importer, p) ==
  IF OnResolveFilter(p) THEN OnResolve(importer, p)
  ELSE IF StartsWith(p, DOT) /\ HasSourceExt(p) THEN join(dirname(importer), p)
  ELSE IF StartsWith(p, DOT) THEN join(dirname(importer), p \o DOT_TSX)
  ELSE p

\* the source of a component file: export default <button>hi</button>
ComponentSource == << ExportDefault(Element(T_BUTTON, << >>, << Text(TXT_HI) >>)) >>

\* the contents the plugin's onLoad reads from disk: the page imports an island
\* and renders it, any other server-side file imports nothing
FileContents(file) ==
  IF file = PAGE THEN SourceFile(<< ImportDefault(N_COUNTER, IMP_COUNTER) >>, "each", TRUE)
  ELSE SourceFile(<< >>, "none", TRUE)

NoOutput == [ok |-> FALSE, generate |-> "none", code |-> << >>, warnings |-> << >>]
NoRequest == [state |-> "none", element |-> NullNode, dev |-> FALSE]
NoResponse == [body |-> << >>, scripts |-> << >>]

\* the outputs Bun.build writes: one bundle per entrypoint, named by it, made
\* of its hydration module and the browser compilation of what that imports
Bundles(components) ==
  [i \in 1..Len(components) |->
     LET module == HydrationModule(components, components[i].id)
     IN  [name     |-> components[i].id \o JS_EXT,
          virtual  |-> IsVirtualId(components[i].id),
          module   |-> module,
          compiled |-> transform(ComponentSource, module.imports, "dom", FALSE)]]

\* variant: a failed build is not reported
BuildLogsQuiet(components, verbose, success) ==
  IF verbose
    THEN [i \in 1..Len(components) |->
            [level |-> "log", filename |-> relative(CWD, components[i].path),
             paths |-> << components[i].id >>]]
         \o << [level |-> "log", filename |-> << >>, paths |-> << >>] >>
    ELSE << >>

\* the console output after Bun.build returned
BuildLogs(components, verbose, success) ==
  (IF verbose
     THEN [i \in 1..Len(components) |->
             [level |-> "log", filename |-> relative(CWD, components[i].path),
              paths |-> << components[i].id >>]]
          \o << [level |-> "log", filename |-> << >>, paths |-> << >>] >>
     ELSE << >>)
  \o (IF success THEN << >> ELSE << [level |-> "error", filename |-> << >>, paths |-> << >>] >>)

VARIABLES
  cfgDev,        \* createConfig({ dev })
  cfgVerbose,    \* createConfig({ verbose }): "unset", "on" or "off"
  islandsBuilt,  \* let islandsBuilt
  calls,         \* the hook invocations of the plugins, in the order they started
  builds,        \* the buildIslands invocations, in the order they started
  tIn,           \* the arguments of a direct transform call
  tOut,          \* its result
  hReq,          \* the element handed to html()
  hRes,          \* what html() hands to the template
  chunkReq,      \* a request for a chunk under /_ssr and the path found for it
  honoRun,       \* one request running through the handlers of a Hono page route
  pageDom,       \* the placeholders of a page in the browser while its bundles run
  liveReload     \* the live reload part of the dev client in the browser

vars == << cfgDev, cfgVerbose, islandsBuilt, calls, builds, tIn, tOut, hReq, hRes,
          chunkReq, honoRun, pageDom, liveReload >>

NoPage == [state |-> "none"]

NoClient == [state |-> "none"]

NoChunk == [state |-> "none"]

NoRun == [state |-> "none"]

NoInput == [source |-> << >>, filename |-> << >>, mode |-> "none", dev |-> FALSE]

\* verbose: verbose ?? !dev
Verbose == IF cfgVerbose = "unset" THEN ~cfgDev ELSE cfgVerbose = "on"

\* html(element), called by a route
Html ==
  /\ hReq.state = "pending"
  /\ hRes' = html(hReq.element, hReq.dev)
  /\ hReq' = [hReq EXCEPT !.state = "served"]
  /\ UNCHANGED << cfgDev, cfgVerbose, islandsBuilt, calls, builds, tIn, tOut, chunkReq, honoRun,
                  pageDom, liveReload >>

\* ---- the plugin and the island build --------------------------------------

\* where the latest buildIslands invocation stands: what a hook invocation
\* finds when it starts
BuildPhase ==
  IF Len(builds) = 0 THEN "none"
  ELSE IF builds[Len(builds)].pc = "returned" /\ ~builds[Len(builds)].success THEN "failed"
  ELSE builds[Len(builds)].pc

\* variant: ensureIslands without the islandsBuilt test
StartHookUnguarded(hook, file) ==
  /\ Len(calls) < NumCalls
  /\ islandsBuilt' = TRUE
  /\ builds' = Append(builds, [pc |-> "scan", files |-> << >>, components |-> << >>,
                                entrypoints |-> << >>, console |-> << >>,
                                outputs |-> << >>, success |-> FALSE])
  /\ calls' = Append(calls, [hook |-> hook, file |-> file, build |-> Len(builds) + 1,
                              buildWas |-> BuildPhase,
                              pc |-> "awaitBuild", contents |-> << >>,
                              result |-> NoOutput])
  /\ UNCHANGED << cfgDev, cfgVerbose, tIn, tOut, hReq, hRes, chunkReq, honoRun,
                  pageDom, liveReload >>

\* a hook invocation up to its first suspension: ensureIslands up to the await
StartHook(hook, file) ==
  /\ Len(calls) < NumCalls
  /\ IF islandsBuilt
       THEN /\ calls' = Append(calls, [hook |-> hook, file |-> file, build |-> 0,
                                        buildWas |-> BuildPhase,
                                        pc |-> IF hook = "onStart" THEN "done" ELSE "ensured",
                                        contents |-> << >>, result |-> NoOutput])
            /\ UNCHANGED << islandsBuilt, builds >>
       ELSE /\ islandsBuilt' = TRUE
            /\ builds' = Append(builds, [pc |-> "scan", files |-> << >>, components |-> << >>,
                                          entrypoints |-> << >>, console |-> << >>,
                                          outputs |-> << >>, success |-> FALSE])
            /\ calls' = Append(calls, [hook |-> hook, file |-> file, build |-> Len(builds) + 1,
                                        buildWas |-> BuildPhase,
                                        pc |-> "awaitBuild", contents |-> << >>,
                                        result |-> NoOutput])
  /\ UNCHANGED << cfgDev, cfgVerbose, tIn, tOut, hReq, hRes, chunkReq, honoRun,
                  pageDom, liveReload >>

\* build.onStart(ensureIslands)
OnStart == StartHook("onStart", << >>)

\* build.onLoad({ filter: /\.(tsx|jsx)$/ }, ...) up to await ensureIslands()
OnLoad == \E f \in ServerFiles : StartHook("onLoad", f)

\* variant: buildIslands without the early return on an empty scan
BuildScanNoReturn ==
  \E b \in 1..Len(builds) : \E files \in ScanResults :
    /\ builds[b].pc = "scan"
    /\ builds' =
         [builds EXCEPT ![b] =
            [@ EXCEPT !.pc = "bundle", !.files = files,
                      !.components = Components(files),
                      !.entrypoints = [i \in 1..Len(files) |-> hash(files[i])],
                      !.console = DuplicateWarnings(Components(files))]]
    /\ UNCHANGED << cfgDev, cfgVerbose, islandsBuilt, calls, tIn, tOut, hReq, hRes, chunkReq, honoRun,
                    pageDom, liveReload >>

\* buildIslands from the scan to the Bun.build call
BuildScan ==
  \E b \in 1..Len(builds) : \E files \in ScanResults :
    /\ builds[b].pc = "scan"
    /\ builds' =
         [builds EXCEPT ![b] =
            IF Len(files) = 0
              THEN [@ EXCEPT !.pc = "returned", !.success = TRUE,
                             !.console = IF Verbose
                                           THEN << [level |-> "log", filename |-> << >>,
                                                    paths |-> << >>] >>
                                           ELSE << >>]
              ELSE LET components == Components(files)
                   IN  [@ EXCEPT !.pc = "bundle", !.files = files,
                                 !.components = components,
                                 !.entrypoints = [i \in 1..Len(components) |-> components[i].id],
                                 !.console = DuplicateWarnings(components)]]
    /\ UNCHANGED << cfgDev, cfgVerbose, islandsBuilt, calls, tIn, tOut, hReq, hRes, chunkReq, honoRun,
                    pageDom, liveReload >>

\* buildIslands from the completion of Bun.build to its end
BuildBundle ==
  \E b \in 1..Len(builds) : \E outcome \in { "success", "failure", "throw" } :
    /\ builds[b].pc = "bundle"
    /\ builds' =
         [builds EXCEPT ![b] =
            IF outcome = "throw" THEN [@ EXCEPT !.pc = "threw"]
            ELSE [@ EXCEPT !.pc = "returned",
                           !.success = (outcome = "success"),
                           !.outputs = IF outcome = "success" THEN Bundles(builds[b].components) ELSE << >>,
                           !.console = @ \o BuildLogs(builds[b].components, Verbose,
                                                       outcome = "success")]]
    /\ UNCHANGED << cfgDev, cfgVerbose, islandsBuilt, calls, tIn, tOut, hReq, hRes, chunkReq, honoRun,
                    pageDom, liveReload >>

\* variant: a build that threw clears the flag, so that a later call retries
EnsureReturnRetry ==
  \E c \in 1..Len(calls) :
    /\ calls[c].pc = "awaitBuild"
    /\ builds[calls[c].build].pc \in { "returned", "threw" }
    /\ calls' = [calls EXCEPT ![c].pc =
                    IF builds[calls[c].build].pc = "threw" THEN "rejected"
                    ELSE IF calls[c].hook = "onStart" THEN "done"
                    ELSE "ensured"]
    /\ islandsBuilt' = (builds[calls[c].build].pc # "threw")
    /\ UNCHANGED << cfgDev, cfgVerbose, builds, tIn, tOut, hReq, hRes, chunkReq, honoRun,
                    pageDom, liveReload >>

\* await buildIslands(...) in ensureIslands resumes
EnsureReturn ==
  \E c \in 1..Len(calls) :
    /\ calls[c].pc = "awaitBuild"
    /\ builds[calls[c].build].pc \in { "returned", "threw" }
    /\ calls' = [calls EXCEPT ![c].pc =
                    IF builds[calls[c].build].pc = "threw" THEN "rejected"
                    ELSE IF calls[c].hook = "onStart" THEN "done"
                    ELSE "ensured"]
    /\ UNCHANGED << cfgDev, cfgVerbose, islandsBuilt, builds, tIn, tOut, hReq, hRes, chunkReq, honoRun,
                    pageDom, liveReload >>

\* onLoad after await ensureIslands(): read the file and transform it
LoadTransform ==
  \E c \in 1..Len(calls) :
    /\ calls[c].pc = "ensured"
    /\ LET r == transform(FileContents(calls[c].file), calls[c].file, "ssr", cfgDev)
       IN  calls' = [calls EXCEPT ![c].pc = IF r.ok THEN "done" ELSE "rejected",
                                  ![c].contents = FileContents(calls[c].file),
                                  ![c].result = r]
    /\ UNCHANGED << cfgDev, cfgVerbose, islandsBuilt, builds, tIn, tOut, hReq, hRes, chunkReq, honoRun,
                    pageDom, liveReload >>

Init ==
  /\ cfgDev \in BOOLEAN
  /\ cfgVerbose \in { "unset", "on" }
  /\ islandsBuilt = FALSE
  /\ calls = << >>
  /\ builds = << >>
  /\ tIn = NoInput
  /\ tOut = NoOutput
  /\ hReq = NoRequest
  /\ hRes = NoResponse
  /\ chunkReq = NoChunk
  /\ honoRun = NoRun
  /\ pageDom = NoPage
  /\ liveReload = NoClient

Next ==
  \/ OnStart
  \/ OnLoad
  \/ BuildScan
  \/ BuildBundle
  \/ EnsureReturn
  \/ LoadTransform

Spec == Init /\ [][Next]_vars

\* ---- transform called on its own, and the page rendered from its result -----

TransformInputs ==
  { [source |-> src, filename |-> f, mode |-> md.mode, dev |-> md.dev] :
      src \in SourceFiles, f \in Filenames, md \in TransformModes }

\* transform(source, filename, mode, dev)
TransformCall ==
  /\ tOut.generate = "none"
  /\ tOut' = transform(tIn.source, tIn.filename, tIn.mode, tIn.dev)
  /\ UNCHANGED << cfgDev, cfgVerbose, islandsBuilt, calls, builds, tIn, hReq, hRes, chunkReq, honoRun,
                  pageDom, liveReload >>

\* a route renders the default export of the server-side module
Route ==
  /\ tOut.ok
  /\ tOut.generate = "ssr"
  /\ hReq.state = "none"
  /\ hReq' = [state |-> "pending", element |-> DefaultExport(tOut.code), dev |-> tIn.dev]
  /\ UNCHANGED << cfgDev, cfgVerbose, islandsBuilt, calls, builds, tIn, tOut, hRes, chunkReq, honoRun,
                  pageDom, liveReload >>

InitTransform ==
  /\ tIn \in TransformInputs
  /\ tOut = NoOutput
  /\ hReq = NoRequest
  /\ hRes = NoResponse
  /\ cfgDev = tIn.dev
  /\ cfgVerbose = "unset"
  /\ islandsBuilt = FALSE
  /\ calls = << >>
  /\ builds = << >>
  /\ chunkReq = NoChunk
  /\ honoRun = NoRun
  /\ pageDom = NoPage
  /\ liveReload = NoClient

NextTransform ==
  \/ TransformCall
  \/ Route
  \/ Html

SpecTransform == InitTransform /\ [][NextTransform]_vars

\* ---- html() on rendered markup ----------------------------------------------

MaxPlaceholders == 3

\* a placeholder as the transform writes it
Placeholder(tag, id, children) ==
  Element(tag,
          << [type |-> "JSXAttribute", name |-> DATA_ID,
              value |-> [type |-> "StringLiteral", value |-> id]],
             [type |-> "JSXAttribute", name |-> DATA_PROPS,
              value |-> [type |-> "JSXExpressionContainer", expression |-> NullNode]] >>,
          children)

\* what a page can hold below its root: island and client placeholders of two
\* components, an island placeholder around a client placeholder, plain text
PageParts ==
  { Placeholder(tag, hash(f), << >>) : tag \in { SOLID_ISLAND, SOLID_CLIENT }, f \in { COUNTER, WIDGET } }
  \cup { Placeholder(SOLID_ISLAND, hash(TAB), << Placeholder(SOLID_CLIENT, hash(WIDGET), << >>) >>),
          Text(TXT_HI) }

Pages ==
  UNION { { Element(T_DIV, << >>, q) : q \in [1..n -> PageParts] } : n \in 0..MaxPlaceholders }

InitHtml ==
  /\ hReq \in { [state |-> "pending", element |-> e, dev |-> d] : e \in Pages, d \in BOOLEAN }
  /\ hRes = NoResponse
  /\ tIn = NoInput
  /\ tOut = NoOutput
  /\ cfgDev = hReq.dev
  /\ cfgVerbose = "unset"
  /\ islandsBuilt = FALSE
  /\ calls = << >>
  /\ builds = << >>
  /\ chunkReq = NoChunk
  /\ honoRun = NoRun
  /\ pageDom = NoPage
  /\ liveReload = NoClient

NextHtml == Html

SpecHtml == InitHtml /\ [][NextHtml]_vars

\* ---- a page route of a Hono app built with ssr(...middlewares, handler) -----

MaxMiddlewares == 2

UndefinedPage == [type |-> "undefined"]

\* {} as Partial<T>
EmptyPage == [type |-> "object", title |-> "undefined", description |-> "undefined"]

NoResult == [type |-> "none"]

\* a Response the user code makes itself, such as a redirect
Redirect == [type |-> "Response", status |-> 302]

\* what a user middleware does before it calls next(): nothing, set a page
\* option, put an object of its own under "page", or answer without calling
\* next()
MiddlewareKinds == { "pass", "title", "description", "set", "respond" }

Middleware(does) == [kind |-> "middleware", does |-> does]

\* the final handlers: returning an element, with or without setting the
\* title, or returning a Response
FinalHandlers ==
  { [returns |-> e, title |-> t] :
      e \in { Element(T_DIV, << >>, << >>), Element(T_DIV, << >>, << Text(TXT_HI) >>) },
      t \in { "undefined", "Home" } }
  \cup { [returns |-> Redirect, title |-> "undefined"] }

\* the order this mutant returns: the page middleware behind the user middlewares
ssrPageLast(middlewares, finalHandler) ==
  middlewares
  \o << [kind |-> "pageMiddleware"] >>
  \o << [kind |-> "wrappedHandler", finalHandler |-> finalHandler] >>

\* ssr(...middlewares, finalHandler): [pageMiddleware, ...middlewares, wrappedHandler]
ssr(middlewares, finalHandler) ==
  << [kind |-> "pageMiddleware"] >>
  \o middlewares
  \o << [kind |-> "wrappedHandler", finalHandler |-> finalHandler] >>

\* the handler the request has reached
Running == honoRun.state = "running" /\ honoRun.pos <= Len(honoRun.handlers)

Current == honoRun.handlers[honoRun.pos]

\* c.get("page").title = ... on what c.get("page") returns
SetOption(page, option, value) ==
  IF option = "title" THEN [page EXCEPT !.title = value]
  ELSE [page EXCEPT !.description = value]

\* pageMiddleware: c.set("page", {}); await next()
PageMiddleware ==
  /\ Running
  /\ Current.kind = "pageMiddleware"
  /\ honoRun' = [honoRun EXCEPT !.page = EmptyPage, !.pos = @ + 1]
  /\ UNCHANGED << cfgDev, cfgVerbose, islandsBuilt, calls, builds, tIn, tOut, hReq, hRes, chunkReq,
                  pageDom, liveReload >>

\* a user middleware; setting an option on a page that is not an object throws
UserMiddleware ==
  /\ Running
  /\ Current.kind = "middleware"
  /\ honoRun' =
       LET seen == [honoRun EXCEPT !.seen = Append(@, honoRun.page)]
       IN  IF Current.does = "respond"
             THEN [seen EXCEPT !.state = "done", !.response = Redirect]
           ELSE IF Current.does = "set"
             THEN [seen EXCEPT !.page = [EmptyPage EXCEPT !.title = "Set"], !.pos = @ + 1]
           ELSE IF Current.does = "pass"
             THEN [seen EXCEPT !.pos = @ + 1]
           ELSE IF honoRun.page.type # "object"
             THEN [seen EXCEPT !.state = "threw"]
           ELSE [seen EXCEPT !.page = SetOption(@, Current.does, "Set by middleware"),
                             !.pos = @ + 1]
  /\ UNCHANGED << cfgDev, cfgVerbose, islandsBuilt, calls, builds, tIn, tOut, hReq, hRes, chunkReq,
                  pageDom, liveReload >>

\* wrappedHandler: const result = await finalHandler(c)
FinalHandler ==
  /\ Running
  /\ Current.kind = "wrappedHandler"
  /\ honoRun.result = NoResult
  /\ honoRun' =
       LET seen == [honoRun EXCEPT !.seen = Append(@, honoRun.page)]
       IN  IF Current.finalHandler.title = "undefined"
             THEN [seen EXCEPT !.result = Current.finalHandler.returns]
           ELSE IF honoRun.page.type # "object"
             THEN [seen EXCEPT !.state = "threw"]
           ELSE [seen EXCEPT !.page = SetOption(@, "title", Current.finalHandler.title),
                             !.result = Current.finalHandler.returns]
  /\ UNCHANGED << cfgDev, cfgVerbose, islandsBuilt, calls, builds, tIn, tOut, hReq, hRes, chunkReq,
                  pageDom, liveReload >>

\* wrappedHandler: if (result instanceof Response) return result;
\* return html(result, c.get("page"))
WrappedReturn ==
  /\ Running
  /\ Current.kind = "wrappedHandler"
  /\ honoRun.result # NoResult
  /\ honoRun' =
       IF honoRun.result.type = "Response"
         THEN [honoRun EXCEPT !.state = "done", !.response = honoRun.result]
       ELSE [honoRun EXCEPT
               !.state = "done",
               !.htmlCalls = Append(@, [element |-> honoRun.result, options |-> honoRun.page]),
               !.response = [type |-> "Response", status |-> 200]]
  /\ UNCHANGED << cfgDev, cfgVerbose, islandsBuilt, calls, builds, tIn, tOut, hReq, hRes, chunkReq,
                  pageDom, liveReload >>

\* the lists of user middlewares a route is built with
MiddlewareLists ==
  UNION { [1..n -> { Middleware(does) : does \in MiddlewareKinds }] : n \in 0..MaxMiddlewares }

InitHono ==
  /\ honoRun \in { [state |-> "running", handlers |-> ssr(m, h), pos |-> 1,
                     page |-> UndefinedPage, seen |-> << >>, result |-> NoResult,
                     htmlCalls |-> << >>, response |-> NoResult] :
                      m \in MiddlewareLists, h \in FinalHandlers }
  /\ chunkReq = NoChunk
  /\ hReq = NoRequest
  /\ hRes = NoResponse
  /\ tIn = NoInput
  /\ tOut = NoOutput
  /\ cfgDev = FALSE
  /\ cfgVerbose = "unset"
  /\ islandsBuilt = FALSE
  /\ calls = << >>
  /\ builds = << >>
  /\ pageDom = NoPage
  /\ liveReload = NoClient

NextHono ==
  \/ PageMiddleware
  \/ UserMiddleware
  \/ FinalHandler
  \/ WrappedReturn

SpecHono == InitHono /\ [][NextHono]_vars

\* ---- the bundles of a page running in the browser -----------------------------

MaxHydrated == 2

\* the component files whose usages a page holds
HydratedFiles == { COUNTER, WIDGET, TAB, DMTK, DRRG }

\* the tag the transform writes for a usage of the file
TagOf(file) == IF getComponentType(file) = "island" THEN SOLID_ISLAND ELSE SOLID_CLIENT

\* a placeholder in the document: its own props, the placeholder it stands in
\* (0 for none), and what the bundles have done to it
DomNode(file, props, parent) ==
  [tag |-> TagOf(file), id |-> hash(file), file |-> file, props |-> props,
   parent |-> parent, attached |-> TRUE, cleared |-> FALSE, mounts |-> << >>]

\* the pages: up to MaxHydrated placeholders side by side, the props of each
\* its own, and possibly a client placeholder rendered inside the first one
\* when that is an island
DomPages ==
  UNION { { [i \in 1..n |-> DomNode(q[i], i, 0)] : q \in [1..n -> HydratedFiles] } :
           n \in 1..MaxHydrated }
  \cup UNION { { [i \in 1..n |-> DomNode(q[i], i, 0)] \o << DomNode(WIDGET, n + 1, 1) >> :
                   q \in { r \in [1..n -> HydratedFiles] : TagOf(r[1]) = SOLID_ISLAND } } :
                 n \in 1..MaxHydrated }

\* the page as html() gets it
RECURSIVE DomTree(_, _)
DomTree(nodes, parent) ==
  LET below == SelectSeq([i \in 1..Len(nodes) |-> [at |-> i, node |-> nodes[i]]],
                         LAMBDA e : e.node.parent = parent)
  IN  [i \in 1..Len(below) |->
         Placeholder(below[i].node.tag, below[i].node.id, DomTree(nodes, below[i].at))]

\* the ids html() writes script tags for
ScriptIdsOf(nodes) ==
  IslandIds(MatchAll(renderToString(Element(T_DIV, << >>, DomTree(nodes, 0))), 1))

\* the distinct files of the page, as the scan of the build finds them
RECURSIVE FilesOf(_, _)
FilesOf(nodes, found) ==
  IF Len(nodes) = 0 THEN found
  ELSE FilesOf(Tail(nodes),
               IF \E i \in 1..Len(found) : found[i] = Head(nodes).file
                 THEN found ELSE Append(found, Head(nodes).file))

\* node d stands inside node e
RECURSIVE IsBelow(_, _, _)
IsBelow(nodes, d, e) ==
  /\ nodes[d].parent # 0
  /\ (nodes[d].parent = e \/ IsBelow(nodes, nodes[d].parent, e))

\* document.querySelectorAll(selector): the attached placeholders the selector
\* solid-island[data-id="..."] or solid-client[data-id="..."] matches
QuerySelectorAll(nodes, selector) ==
  SelectSeq([i \in 1..Len(nodes) |-> i],
            LAMBDA i : /\ nodes[i].attached
                       /\ \/ (nodes[i].tag = SOLID_ISLAND
                               /\ selector = SEL_ISLAND \o nodes[i].id \o SEL_END)
                          \/ (nodes[i].tag = SOLID_CLIENT
                               /\ selector = SEL_CLIENT \o nodes[i].id \o SEL_END))

\* e => { e.innerHTML = ""; render(() => createComponent(C, deserialize(e.dataset.props)), e) }
HydrateElement(dom, e, bundle, component) ==
  [dom EXCEPT
     !.nodes = [d \in 1..Len(@) |->
                  IF d = e
                    THEN [@[d] EXCEPT !.cleared = TRUE,
                                      !.mounts = Append(@, [component |-> component,
                                                            props |-> dom.nodes[e].props])]
                  ELSE IF IsBelow(dom.nodes, d, e) THEN [@[d] EXCEPT !.attached = FALSE]
                  ELSE @[d]],
     !.log = @ \o << [bundle |-> bundle, node |-> e] >>
               \o [n \in 1..Len(SelectSeq([d \in 1..Len(dom.nodes) |-> d],
                                           LAMBDA d : IsBelow(dom.nodes, d, e) /\ dom.nodes[d].attached))
                      |-> [bundle |-> bundle,
                           node |-> SelectSeq([d \in 1..Len(dom.nodes) |-> d],
                                              LAMBDA d : IsBelow(dom.nodes, d, e)
                                                         /\ dom.nodes[d].attached)[n]]]]

\* .forEach over the elements found
RECURSIVE ForEach(_, _, _, _)
ForEach(dom, found, bundle, component) ==
  IF Len(found) = 0 THEN dom
  ELSE ForEach(HydrateElement(dom, Head(found), bundle, component), Tail(found), bundle, component)

\* the bundle <id>.js runs: its hydration module, if the build wrote one
RunBundle ==
  /\ pageDom.state = "loaded"
  /\ \E n \in 1..Len(pageDom.scripts) :
       /\ pageDom.scripts[n] \notin pageDom.ran
       /\ pageDom' =
            LET module == HydrationModule(Components(FilesOf(pageDom.nodes, << >>)), pageDom.scripts[n])
                ranNow == [pageDom EXCEPT !.ran = @ \cup { pageDom.scripts[n] }]
            IN  IF module.empty THEN ranNow
                ELSE ForEach(ranNow, QuerySelectorAll(pageDom.nodes, module.selector),
                             pageDom.scripts[n], module.imports)
  /\ UNCHANGED << cfgDev, cfgVerbose, islandsBuilt, calls, builds, tIn, tOut, hReq, hRes,
                  chunkReq, honoRun, liveReload >>

InitHydrate ==
  /\ pageDom \in { [state |-> "loaded", nodes |-> p, scripts |-> ScriptIdsOf(p),
                     ran |-> { }, log |-> << >>] : p \in DomPages }
  /\ liveReload = NoClient
  /\ chunkReq = NoChunk
  /\ honoRun = NoRun
  /\ hReq = NoRequest
  /\ hRes = NoResponse
  /\ tIn = NoInput
  /\ tOut = NoOutput
  /\ cfgDev = FALSE
  /\ cfgVerbose = "unset"
  /\ islandsBuilt = FALSE
  /\ calls = << >>
  /\ builds = << >>

NextHydrate == RunBundle

SpecHydrate == InitHydrate /\ [][NextHydrate]_vars

\* ------------------------------------------------------------------------
\* The dev-mode client: live reload (the script served as /_ssr/_client.js)
\* ------------------------------------------------------------------------

\* at most this many ping requests in flight, and this many page reloads
MaxPending == 2
MaxReloads == 2

\* variant: stop closes the EventSource and leaves the ping interval running
stopKeepsInterval(c) ==
  [c EXCEPT !.sources = IF c.es THEN @ - 1 ELSE @,
            !.es = FALSE]

\* stop: es?.close(); es = null; clearInterval(interval); interval = null
stop(c) ==
  [c EXCEPT !.sources = IF c.es THEN @ - 1 ELSE @,
            !.es = FALSE,
            !.timers = IF c.interval THEN @ - 1 ELSE @,
            !.interval = FALSE]

\* start: nothing while es is set; else a new EventSource, unless its
\* constructor throws
start(c, throws) ==
  IF c.es \/ throws THEN c
  ELSE [c EXCEPT !.es = TRUE, !.sources = @ + 1, !.badge = "[ssr]"]

\* es.onerror: stop, and poll /_ssr/_ping every 300 ms if auto reload is on
onerror(c) ==
  LET stopped == [stop(c) EXCEPT !.badge = "[...]"]
  IN  IF ~stopped.autoReload THEN stopped
      ELSE [stopped EXCEPT !.interval = TRUE, !.timers = @ + 1]

\* #_ssr_reload onchange: settings.autoReload = checked; save; start or stop
onchange(c, checked, throws) ==
  LET set == [c EXCEPT !.autoReload = checked]
  IN  IF checked THEN start(set, throws) ELSE stop(set)

\* the script runs on a fresh page: settings = load(); if (settings.autoReload) start()
PageLoad(autoReload, reloads, lastReload, throws) ==
  LET fresh == [state |-> "running", autoReload |-> autoReload, es |-> FALSE, sources |-> 0,
                interval |-> FALSE, timers |-> 0, pending |-> 0, hidden |-> FALSE,
                badge |-> "[]", last |-> "load", reloads |-> reloads,
                lastReload |-> lastReload]
  IN  IF autoReload THEN start(fresh, throws) ELSE fresh

\* the user flips the auto reload checkbox
OnChange ==
  /\ liveReload.state = "running"
  /\ ~liveReload.hidden
  /\ \E throws \in BOOLEAN :
       liveReload' = [onchange(liveReload, ~liveReload.autoReload, throws) EXCEPT !.last = "change"]
  /\ UNCHANGED << cfgDev, cfgVerbose, islandsBuilt, calls, builds, tIn, tOut, hReq, hRes,
                  chunkReq, honoRun, pageDom >>

\* an open EventSource reports an error: the connection to the server is lost
OnError ==
  /\ liveReload.state = "running"
  /\ ~liveReload.hidden
  /\ liveReload.sources > 0
  /\ liveReload' = [onerror(liveReload) EXCEPT !.last = "error"]
  /\ UNCHANGED << cfgDev, cfgVerbose, islandsBuilt, calls, builds, tIn, tOut, hReq, hRes,
                  chunkReq, honoRun, pageDom >>

\* a scheduled interval fires: fetch("/_ssr/_ping") goes out
IntervalTick ==
  /\ liveReload.state = "running"
  /\ ~liveReload.hidden
  /\ liveReload.timers > 0
  /\ liveReload.pending < MaxPending
  /\ liveReload' = [liveReload EXCEPT !.pending = @ + 1, !.last = "tick"]
  /\ UNCHANGED << cfgDev, cfgVerbose, islandsBuilt, calls, builds, tIn, tOut, hReq, hRes,
                  chunkReq, honoRun, pageDom >>

\* a ping settles: .then((r) => r.ok && location.reload()).catch(() => {});
\* location.reload() loads the page again and the script starts afresh with
\* the saved settings
PingResponse ==
  /\ liveReload.state = "running"
  /\ ~liveReload.hidden
  /\ liveReload.pending > 0
  /\ \E ok \in BOOLEAN : \E throws \in BOOLEAN :
       /\ ok => liveReload.reloads < MaxReloads
       /\ liveReload' =
            IF ok
              THEN PageLoad(liveReload.autoReload, liveReload.reloads + 1,
                            IF liveReload.autoReload THEN "on" ELSE "off", throws)
              ELSE [liveReload EXCEPT !.pending = @ - 1, !.last = "response"]
  /\ UNCHANGED << cfgDev, cfgVerbose, islandsBuilt, calls, builds, tIn, tOut, hReq, hRes,
                  chunkReq, honoRun, pageDom >>

\* window.addEventListener("pagehide", stop)
PageHide ==
  /\ liveReload.state = "running"
  /\ ~liveReload.hidden
  /\ liveReload' = [stop(liveReload) EXCEPT !.hidden = TRUE, !.last = "pagehide"]
  /\ UNCHANGED << cfgDev, cfgVerbose, islandsBuilt, calls, builds, tIn, tOut, hReq, hRes,
                  chunkReq, honoRun, pageDom >>

\* the browser shows the page again from its back/forward cache
PageShow ==
  /\ liveReload.state = "running"
  /\ liveReload.hidden
  /\ liveReload' = [liveReload EXCEPT !.hidden = FALSE, !.last = "pageshow"]
  /\ UNCHANGED << cfgDev, cfgVerbose, islandsBuilt, calls, builds, tIn, tOut, hReq, hRes,
                  chunkReq, honoRun, pageDom >>

InitDevClient ==
  /\ liveReload \in { PageLoad(autoReload, 0, "none", throws) :
                        autoReload \in BOOLEAN, throws \in BOOLEAN }
  /\ pageDom = NoPage
  /\ chunkReq = NoChunk
  /\ honoRun = NoRun
  /\ hReq = NoRequest
  /\ hRes = NoResponse
  /\ tIn = NoInput
  /\ tOut = NoOutput
  /\ cfgDev = TRUE
  /\ cfgVerbose = "unset"
  /\ islandsBuilt = FALSE
  /\ calls = << >>
  /\ builds = << >>

NextDevClient ==
  \/ OnChange
  \/ OnError
  \/ IntervalTick
  \/ PingResponse
  \/ PageHide
  \/ PageShow

SpecDevClient == InitDevClient /\ [][NextDevClient]_vars

\* ---- a chunk requested under /_ssr -------------------------------------------

NullPath == << "null" >>

\* safePath(base, filename)
safePath(base, filename) ==
  LET resolved == resolve(<< base, filename >>)
  IN  IF StartsWith(resolved, resolve(<< base >>) \o SLASH) THEN resolved ELSE NullPath

\* the directories a route serves chunks from: getSsrDir(dev) of the project,
\* the same written with a trailing separator or relative to the working
\* directory, and the root of the file system
SsrDirs ==
  { join(CWD, << "_", "s", "s", "r" >>),
    << "/", "a", "/", "_", "s", "s", "r", "/" >>,
    << "_", "s", "s", "r" >>,
    SLASH }

\* the filenames asked for: plain names, names below the directory, names that
\* climb out of it with "..", names that climb out and come back, absolute
\* paths, and the empty and dot names
ChunkNames ==
  { << "k", ".", "j", "s" >>,
    << "x", "/", "k", ".", "j", "s" >>,
    << ".", "/", "k", ".", "j", "s" >>,
    << ".", ".", "/", "s", ".", "t", "x", "t" >>,
    << ".", ".", "/", ".", ".", "/", "e", "t", "c", "/", "p" >>,
    << ".", ".", "/", ".", ".", "/", ".", ".", "/", "e", "t", "c", "/", "p" >>,
    << "x", "/", ".", ".", "/", ".", ".", "/", ".", ".", "/", "e", "t", "c", "/", "p" >>,
    << "/", "e", "t", "c", "/", "p" >>,
    << ".", ".", "/", "_", "s", "s", "r", "/", "k", ".", "j", "s" >>,
    << ".", ".", "/", "_", "s", "s", "r", "2", "/", "k", ".", "j", "s" >>,
    << "/", "a", "/", "_", "s", "s", "r", "/", "k", ".", "j", "s" >>,
    << "/", "a", "/", "_", "s", "s", "r", "2", "/", "k", ".", "j", "s" >>,
    << >>,
    << "." >>,
    << ".", "." >>,
    << "a" >> }

\* the files on disk
ChunkFiles == { join(CWD, << "_", "s", "s", "r", "/", "k", ".", "j", "s" >>), << "/", "e", "t", "c", "/", "p" >> }

\* const path = safePath(ssrDir, filename)
ChunkLookup ==
  /\ chunkReq.state = "pending"
  /\ chunkReq' = [chunkReq EXCEPT !.state = "looked up",
                                  !.path = safePath(chunkReq.base, chunkReq.filename)]
  /\ UNCHANGED << cfgDev, cfgVerbose, islandsBuilt, calls, builds, tIn, tOut, hReq, hRes, honoRun,
                  pageDom, liveReload >>

\* if (!path) return notFound(); if (!(await file.exists())) return notFound();
\* return new Response(file)
ChunkRespond ==
  /\ chunkReq.state = "looked up"
  /\ chunkReq' = [chunkReq EXCEPT !.state = "responded",
                                  !.status = IF chunkReq.path = NullPath THEN 404
                                             ELSE IF chunkReq.path \in ChunkFiles THEN 200
                                             ELSE 404]
  /\ UNCHANGED << cfgDev, cfgVerbose, islandsBuilt, calls, builds, tIn, tOut, hReq, hRes, honoRun,
                  pageDom, liveReload >>

InitChunk ==
  /\ chunkReq \in { [state |-> "pending", base |-> b, filename |-> f, path |-> NullPath, status |-> 0] :
                      b \in SsrDirs, f \in ChunkNames }
  /\ honoRun = NoRun
  /\ hReq = NoRequest
  /\ hRes = NoResponse
  /\ tIn = NoInput
  /\ tOut = NoOutput
  /\ cfgDev = FALSE
  /\ cfgVerbose = "unset"
  /\ islandsBuilt = FALSE
  /\ calls = << >>
  /\ builds = << >>
  /\ pageDom = NoPage
  /\ liveReload = NoClient

NextChunk ==
  \/ ChunkLookup
  \/ ChunkRespond

SpecChunk == InitChunk /\ [][NextChunk]_vars

\* the segments of an absolute path
PathSegments(p) == SelectSeq(Split(p, "/"), LAMBDA g : g # << >>)

\* p lies below dir and is not dir itself
StrictlyInside(dir, p) ==
  /\ Len(PathSegments(p)) > Len(PathSegments(dir))
  /\ SubSeq(PathSegments(p), 1, Len(PathSegments(dir))) = PathSegments(dir)

\* the base directory as an absolute path
AbsoluteBase(base) == IF StartsWith(base, SLASH) THEN Normalize(base) ELSE join(CWD, base)

\* where a filename leads when followed from the base directory
TargetOf(base, filename) ==
  IF StartsWith(filename, SLASH) THEN Normalize(filename) ELSE join(AbsoluteBase(base), filename)

\* a plain filename: one segment that names a file
IsPlainName(filename) ==
  /\ Len(filename) > 0
  /\ ~Includes(filename, SLASH)
  /\ filename \notin { DOT, DOTDOT }

LookedUp == chunkReq.state \in { "looked up", "responded" }

\* C18: for every base directory and filename, safePath returns a path only if
\* the resolved path lies strictly inside the base directory, returns null for
\* every filename that resolves outside it, and returns base/filename for a
\* plain filename.
Claim_C18 ==
  LookedUp =>
    /\ chunkReq.path # NullPath =>
          /\ StrictlyInside(AbsoluteBase(chunkReq.base), chunkReq.path)
          /\ PathSegments(chunkReq.path) = PathSegments(TargetOf(chunkReq.base, chunkReq.filename))
    /\ ~StrictlyInside(AbsoluteBase(chunkReq.base), TargetOf(chunkReq.base, chunkReq.filename))
          => chunkReq.path = NullPath
    /\ IsPlainName(chunkReq.filename)
          => chunkReq.path = join(AbsoluteBase(chunkReq.base), chunkReq.filename)

\* ------------------------------------------------------------------------
\* Reading the trees and the script block
\* ------------------------------------------------------------------------

IsElement(node) == node.type = "JSXElement"

IsPlaceholder(node) == IsElement(node) /\ node.name \in { SOLID_ISLAND, SOLID_CLIENT }

\* the elements of a tree in document order, those inside attribute values included
RECURSIVE ElementsOf(_)
ElementsOf(node) ==
  IF ~IsElement(node) THEN << >>
  ELSE << node >>
       \o Concat([i \in 1..Len(node.attributes) |->
                    IF node.attributes[i].type = "JSXAttribute"
                       /\ node.attributes[i].value.type = "JSXExpressionContainer"
                      THEN ElementsOf(node.attributes[i].value.expression)
                      ELSE << >>])
       \o Concat([i \in 1..Len(node.children) |-> ElementsOf(node.children[i])])

PlaceholdersOf(node) == SelectSeq(ElementsOf(node), IsPlaceholder)

HasAttribute(node, name) ==
  \E i \in 1..Len(node.attributes) :
    node.attributes[i].type = "JSXAttribute" /\ node.attributes[i].name = name

\* the value of the data-id attribute of a placeholder
DataIdOf(node) ==
  node.attributes[CHOOSE i \in 1..Len(node.attributes) :
                    node.attributes[i].name = DATA_ID].value.value

Transformed == tOut.generate # "none"

\* the JSX the source file renders, and what the transform made of it
InTree == DefaultExport(tIn.source)
OutTree == DefaultExport(tOut.code)

\* the elements of the source tree paired with what stands in their place in
\* the transformed tree, in document order; below a replaced element nothing
\* is paired
RECURSIVE SitePairs(_, _)
SitePairs(usage, out) ==
  IF ~IsElement(usage) THEN << >>
  ELSE << [usage |-> usage, out |-> out] >>
       \o (IF IsPlaceholder(out) \/ ~IsElement(out) \/ Len(out.children) # Len(usage.children)
             THEN << >>
             ELSE Concat([i \in 1..Len(usage.children) |->
                            SitePairs(usage.children[i], out.children[i])]))

Sites == SitePairs(InTree, OutTree)
NumSites == Len(Sites)
UsageAt(i) == Sites[i].usage
OutAt(i) == Sites[i].out

IsImport(n) == n.type = "ImportDeclaration"
IsDefaultImport(n) == IsImport(n) /\ n.specifiers[1].type = "ImportDefaultSpecifier"

\* statement k of the source is a default import that stands above the export
ImportedAbove(k) ==
  /\ IsDefaultImport(tIn.source[k])
  /\ \E e \in (k + 1)..Len(tIn.source) : tIn.source[e].type = "ExportDefault"

\* a relative import source naming a component file, with or without .tsx
IsRelativeComponentSource(src) ==
  /\ StartsWith(src, DOT)
  /\ \/ EndsWith(src, DOT_ISLAND) \/ EndsWith(src, DOT_CLIENT)
     \/ EndsWith(src, DOT_ISLAND \o DOT_TSX) \/ EndsWith(src, DOT_CLIENT \o DOT_TSX)

\* the component files a scan of the project discovers
Discovered == { f \in ProjectFiles : GlobMatch(f) }

\* site i is a placeholder written for the import in statement k, and that
\* import is a relative import of the discovered file f
PlaceholderFor(i, k, f) ==
  /\ IsDefaultImport(tIn.source[k])
  /\ IsRelativeComponentSource(tIn.source[k].source)
  /\ LocalOf(tIn.source[k]) = UsageAt(i).name
  /\ IsPlaceholder(OutAt(i))
  /\ BundlerResolve(tIn.filename, tIn.source[k].source) = f

\* the file the import in statement k names
FileOf(k) == BundlerResolve(tIn.filename, tIn.source[k].source)

\* site i is a placeholder written for the relative import in statement k of
\* a discovered component file
PlaceholderOfImport(i, k) ==
  /\ IsDefaultImport(tIn.source[k])
  /\ IsRelativeComponentSource(tIn.source[k].source)
  /\ LocalOf(tIn.source[k]) = UsageAt(i).name
  /\ IsPlaceholder(OutAt(i))
  /\ FileOf(k) \in Discovered

\* C1: for every discovered component file and every server-side file that
\* imports it by a relative source, with or without the .tsx extension, and
\* renders it, the data-id on the placeholder is the id buildIslands computes
\* for that file, which names its entrypoint and its bundle.
Theorem_C1 ==
  (Transformed /\ tIn.mode = "ssr") =>
    \A k \in 1..Len(tIn.source) :
      (IsDefaultImport(tIn.source[k]) /\ IsRelativeComponentSource(tIn.source[k].source)) =>
        \A i \in 1..NumSites :
          PlaceholderOfImport(i, k) =>
            /\ Components(<< FileOf(k) >>)[1].id = DataIdOf(OutAt(i))
            /\ Bundles(Components(<< FileOf(k) >>))[1].name = DataIdOf(OutAt(i)) \o JS_EXT

\* a file that imports /a/C.island.tsx once without and once with the
\* extension and renders both: two placeholders for the same discovered file
Witness_C1 ==
  /\ Transformed
  /\ tIn.mode = "ssr"
  /\ \E i, j \in 1..NumSites : \E k, l \in 1..Len(tIn.source) :
       /\ PlaceholderFor(i, k, COUNTER)
       /\ PlaceholderFor(j, l, COUNTER)
       /\ tIn.source[k].source = IMP_COUNTER
       /\ tIn.source[l].source = IMP_COUNTER_TSX

\* C2: for every component path the render class the transform derives (the
\* placeholder tag) is the render class buildIslands derives (the tag of the
\* hydration selector), paths with both markers included.
Claim_C2 ==
  (Transformed /\ tIn.mode = "ssr") =>
    \A i \in 1..NumSites : \A k \in 1..Len(tIn.source) : \A f \in Discovered :
      PlaceholderFor(i, k, f) =>
        StartsWith(Components(<< f >>)[1].selector, OutAt(i).name \o << "[" >>)

\* C3: under any interleaving of onStart and onLoad invocations buildIslands
\* is invoked at most once: only the first ensureIslands call starts a build,
\* every later one starts none.
Theorem_C3 ==
  /\ Len(builds) <= 1
  /\ \A c \in 1..Len(calls) : (calls[c].build # 0) <=> (c = 1)

\* a second hook invocation arrived while the build of the first was scanning
Witness_C3 ==
  /\ Len(calls) = 2
  /\ Len(builds) = 1
  /\ calls[2].buildWas = "scan"
  /\ calls[2].build = 0

\* C4: once the first ensureIslands call has started, the flag stays set, and
\* a call that starts after the build failed (success = false, or buildIslands
\* threw) starts no new build.
Theorem_C4 ==
  /\ Len(calls) > 0 => islandsBuilt
  /\ \A c \in 1..Len(calls) :
       calls[c].buildWas \in { "failed", "threw" } =>
         /\ calls[c].build = 0
         /\ Len(builds) = 1

\* a hook invocation that started after Bun.build had thrown
Witness_C4 ==
  \E c \in 1..Len(calls) :
    /\ calls[c].buildWas = "threw"
    /\ calls[c].hook = "onLoad"
    /\ calls[c].pc = "done"

\* ---- the script block of a page ------------------------------------------

DEV_CLIENT_ID == << "_", "c", "l", "i", "e", "n", "t" >>

BreaksOf(s) == { i \in 1..Len(s) : s[i] = "\n" }

NthBreak(s, n) ==
  CHOOSE i \in BreaksOf(s) : Cardinality({ j \in BreaksOf(s) : j < i }) = n - 1

\* the lines of s
Lines(s) ==
  [n \in 1..(Cardinality(BreaksOf(s)) + 1) |->
     SubSeq(s,
            IF n = 1 THEN 1 ELSE NthBreak(s, n - 1) + 1,
            IF n = Cardinality(BreaksOf(s)) + 1 THEN Len(s) ELSE NthBreak(s, n) - 1)]

IsScriptTag(l) ==
  /\ Len(l) > Len(SCRIPT_OPEN) + Len(SCRIPT_CLOSE)
  /\ StartsWith(l, SCRIPT_OPEN)
  /\ EndsWith(l, SCRIPT_CLOSE)

SrcIdOf(l) == SubSeq(l, Len(SCRIPT_OPEN) + 1, Len(l) - Len(SCRIPT_CLOSE))

\* the ids the script tags of a script block load, in order
ScriptIds(s) ==
  [n \in 1..Len(SelectSeq(Lines(s), IsScriptTag)) |->
     SrcIdOf(SelectSeq(Lines(s), IsScriptTag)[n])]

IsComponentId(id) == id # DEV_CLIENT_ID

ComponentScriptIds(s) == SelectSeq(ScriptIds(s), IsComponentId)

Count(q, v) == Cardinality({ i \in 1..Len(q) : q[i] = v })

\* the values of q in the order of their first occurrence
FirstSeen(q) ==
  [n \in 1..Cardinality({ i \in 1..Len(q) : \A j \in 1..(i - 1) : q[j] # q[i] }) |->
     q[CHOOSE i \in 1..Len(q) :
         /\ \A j \in 1..(i - 1) : q[j] # q[i]
         /\ Cardinality({ h \in 1..(i - 1) : \A j \in 1..(h - 1) : q[j] # q[h] }) = n - 1]]

Served == hReq.state = "served"

\* the data-ids of the placeholders of the page with the given tag, in
\* document order
IdsOnPage(tag) ==
  [n \in 1..Len(SelectSeq(PlaceholdersOf(hReq.element), LAMBDA w : w.name = tag)) |->
     DataIdOf(SelectSeq(PlaceholdersOf(hReq.element), LAMBDA w : w.name = tag)[n])]

AllIdsOnPage == IdsOnPage(SOLID_ISLAND) \o IdsOnPage(SOLID_CLIENT)

\* C5: html() emits exactly one component script tag per distinct id among
\* the island and client ids of the body, however many placeholders carry
\* the id, and none for an id that is not in the body.
Claim_C5 ==
  Served =>
    /\ \A n \in 1..Len(AllIdsOnPage) :
         Count(ComponentScriptIds(hRes.scripts), AllIdsOnPage[n]) = 1
    /\ \A n \in 1..Len(ComponentScriptIds(hRes.scripts)) :
         Count(AllIdsOnPage, ComponentScriptIds(hRes.scripts)[n]) > 0

\* C6: the component script tags are ordered: the island ids, then the client
\* ids, each group in the order of first occurrence in the markup; in dev
\* mode the dev-client script tag comes after all of them.
Theorem_C6 ==
  Served =>
    ScriptIds(hRes.scripts) =
      FirstSeen(IdsOnPage(SOLID_ISLAND)) \o FirstSeen(IdsOnPage(SOLID_CLIENT))
      \o (IF hReq.dev THEN << DEV_CLIENT_ID >> ELSE << >>)

\* a dev page whose first placeholder is a client placeholder, followed by
\* two island placeholders of one component
Witness_C6 ==
  /\ Served
  /\ hReq.dev
  /\ Len(PlaceholdersOf(hReq.element)) = 3
  /\ PlaceholdersOf(hReq.element)[1].name = SOLID_CLIENT
  /\ PlaceholdersOf(hReq.element)[2].name = SOLID_ISLAND
  /\ PlaceholdersOf(hReq.element)[2] = PlaceholdersOf(hReq.element)[3]

\* ---- what the transform does to the usages of a file ----------------------

\* an import source that names an island or client module
IsComponentSource(src) == Includes(src, DOT_ISLAND) \/ Includes(src, DOT_CLIENT)

\* an import source that names an *.island.tsx file
IsIslandSource(src) ==
  EndsWith(src, DOT_ISLAND) \/ EndsWith(src, DOT_ISLAND \o DOT_TSX)

\* name is bound by a default import of an island/client module that stands
\* above the export
IsRecorded(name) ==
  \E k \in 1..Len(tIn.source) :
    /\ ImportedAbove(k)
    /\ IsComponentSource(tIn.source[k].source)
    /\ LocalOf(tIn.source[k]) = name

SsrDone == Transformed /\ tIn.mode = "ssr"

\* the file imports one island and one regular component and renders each
\* once
OneIslandOneRegular ==
  /\ Len(tIn.source) = 3
  /\ \E k, l \in 1..3 :
       /\ IsDefaultImport(tIn.source[k])
       /\ IsDefaultImport(tIn.source[l])
       /\ IsIslandSource(tIn.source[k].source)
       /\ ~IsComponentSource(tIn.source[l].source)
       /\ \A h \in { k, l } :
            Cardinality({ i \in 1..Len(ElementsOf(InTree)) :
                            ElementsOf(InTree)[i].name = LocalOf(tIn.source[h]) }) = 1

\* name is bound by a default import of an island/client module
IsBound(name) ==
  \E k \in 1..Len(tIn.source) :
    /\ IsDefaultImport(tIn.source[k])
    /\ IsComponentSource(tIn.source[k].source)
    /\ LocalOf(tIn.source[k]) = name

\* the element at site i stands where it stood, under its own tag, with as
\* many attributes and children as it had
Unwrapped(i) ==
  /\ IsElement(OutAt(i))
  /\ OutAt(i).name = UsageAt(i).name
  /\ Len(OutAt(i).attributes) = Len(UsageAt(i).attributes)
  /\ Len(OutAt(i).children) = Len(UsageAt(i).children)

\* C7: in SSR mode a file that imports one island and one regular component
\* and renders each once yields exactly one solid-island placeholder and
\* leaves the regular usage unwrapped; in general an element is replaced by a
\* placeholder only if its tag name is bound by an island/client import.
Claim_C7 ==
  SsrDone =>
    /\ OneIslandOneRegular =>
         /\ Len(PlaceholdersOf(OutTree)) = 1
         /\ PlaceholdersOf(OutTree)[1].name = SOLID_ISLAND
         /\ \A i \in 1..NumSites : ~IsBound(UsageAt(i).name) => Unwrapped(i)
    /\ \A i \in 1..NumSites : IsPlaceholder(OutAt(i)) => IsBound(UsageAt(i).name)

\* the file has a default import of an island/client module and no element
\* with the imported name
ImportsUnused ==
  /\ \E k \in 1..Len(tIn.source) :
       IsDefaultImport(tIn.source[k]) /\ IsComponentSource(tIn.source[k].source)
  /\ \A k \in 1..Len(tIn.source) : \A i \in 1..Len(ElementsOf(InTree)) :
       (IsDefaultImport(tIn.source[k]) /\ IsComponentSource(tIn.source[k].source))
         => ElementsOf(InTree)[i].name # LocalOf(tIn.source[k])

\* C8: in SSR mode a file that imports an island or client component and has
\* no JSX usage of the imported name yields no placeholder, and the page
\* rendered from it gets no component script tag.
Theorem_C8 ==
  (SsrDone /\ ImportsUnused) =>
    /\ PlaceholdersOf(OutTree) = << >>
    /\ Served => /\ ComponentScriptIds(hRes.scripts) = << >>
                 /\ ~Includes(hRes.body, OPEN_SOLID)

\* a served page of a file whose only import is an unused client component
Witness_C8 ==
  /\ SsrDone
  /\ ImportsUnused
  /\ Served
  /\ \E k \in 1..Len(tIn.source) : IsImport(tIn.source[k]) /\ tIn.source[k].source = IMP_WIDGET

\* an import source with the client marker alone, and one with the island
\* marker alone
IsClientOnlySource(src) == Includes(src, DOT_CLIENT) /\ ~Includes(src, DOT_ISLAND)
IsIslandOnlySource(src) == Includes(src, DOT_ISLAND) /\ ~Includes(src, DOT_CLIENT)

\* site i is a usage, with children, of the default import in statement k
UsageWithChildren(i, k) ==
  /\ IsDefaultImport(tIn.source[k])
  /\ LocalOf(tIn.source[k]) = UsageAt(i).name
  /\ Len(UsageAt(i).children) > 0

\* C9: a client usage with children becomes a solid-client placeholder without
\* children, and nothing of the component or its children is rendered; an
\* island usage with children becomes a solid-island placeholder whose only
\* child is the usage itself, its children included.
Claim_C9 ==
  SsrDone =>
    \A i \in 1..NumSites : \A k \in 1..Len(tIn.source) :
      UsageWithChildren(i, k) =>
        /\ IsClientOnlySource(tIn.source[k].source) =>
             /\ OutAt(i).name = SOLID_CLIENT
             /\ OutAt(i).children = << >>
             /\ Served => ~Includes(hRes.body, << "[" >> \o UsageAt(i).name \o << "]" >>)
        /\ IsIslandOnlySource(tIn.source[k].source) =>
             /\ OutAt(i).name = SOLID_ISLAND
             /\ OutAt(i).children = << UsageAt(i) >>
             /\ Served => Includes(hRes.body, renderToString(UsageAt(i)))

\* C10: in "dom" mode transform injects neither the seroval import nor the
\* __seroval_serialize binding and emits no solid-island or solid-client
\* element and no data-id attribute, whatever the source imports and renders.
Theorem_C10 ==
  (Transformed /\ tIn.mode = "dom") =>
    /\ \A n \in 1..Len(tOut.code) :
         /\ ~(IsImport(tOut.code[n]) /\ tOut.code[n].source = SEROVAL)
         /\ ~(tOut.code[n].type = "VariableDeclaration" /\ tOut.code[n].id = SEROVAL_SERIALIZE)
    /\ \A n \in 1..Len(ElementsOf(OutTree)) :
         /\ ~IsPlaceholder(ElementsOf(OutTree)[n])
         /\ ~HasAttribute(ElementsOf(OutTree)[n], DATA_ID)

\* a "dom" transform of a file that imports an island above its JSX and
\* renders it
Witness_C10 ==
  /\ Transformed
  /\ tIn.mode = "dom"
  /\ \E i \in 1..Len(ElementsOf(InTree)) : IsRecorded(ElementsOf(InTree)[i].name)

\* ---- the ids of distinct components -----------------------------------------

PlaceholderOfDecl(site, decl) ==
  /\ IsDefaultImport(decl)
  /\ IsRelativeComponentSource(decl.source)
  /\ LocalOf(decl) = site.usage.name
  /\ IsPlaceholder(site.out)
  /\ BundlerResolve(tIn.filename, decl.source) \in Discovered

\* placeholders of imports of two different files are two sites, and their
\* data-ids are equal exactly for the pair DMTK, DRRG
OwnPlaceholders(source, sites) ==
  \A k, l \in 1..Len(source) :
    (IsDefaultImport(source[k]) /\ IsDefaultImport(source[l]) /\ FileOf(k) # FileOf(l)) =>
      \A i \in 1..Len(sites) :
        PlaceholderOfDecl(sites[i], source[k]) =>
          \A j \in 1..Len(sites) :
            PlaceholderOfDecl(sites[j], source[l]) =>
              /\ i # j
              /\ (DataIdOf(sites[i].out) = DataIdOf(sites[j].out))
                   <=> ({ FileOf(k), FileOf(l) } = { DMTK, DRRG })

SameNamed(files, name) ==
  SelectSeq(files, LAMBDA p : Basename(p) = name)

\* the warnings on the console for the given file name
WarningsFor(console, name) ==
  SelectSeq(console, LAMBDA e : e.level = "warn" /\ e.filename = name)

\* C13: two distinct discovered component files that share their basename
\* (in different directories) get the same id.
Claim_C13 ==
  \A b \in 1..Len(builds) :
    \A i, j \in 1..Len(builds[b].components) :
      (/\ builds[b].components[i].path # builds[b].components[j].path
       /\ Basename(builds[b].components[i].path) = Basename(builds[b].components[j].path))
        => builds[b].components[i].id = builds[b].components[j].id

\* the files that share a name are listed by exactly one warning, relative to
\* the working directory and in the order of the scan; a name that occurs
\* once has no warning
WarnedAs(same, warned) ==
  IF Len(same) > 1
    THEN /\ Len(warned) = 1
         /\ warned[1].paths = [n \in 1..Len(same) |-> SubSeq(same[n], Len(CWD) + 2, Len(same[n]))]
  ELSE warned = << >>

WarnedIfShared(files, console, name) ==
  WarnedAs(SameNamed(files, name), WarningsFor(console, name))

\* C14: when the scan holds two or more paths with one basename, buildIslands
\* warns once for that basename, listing the conflicting paths, and still
\* calls the bundler with one entrypoint per discovered file (a successful
\* build writes one bundle per file); a basename that occurs once gets no
\* warning.
Theorem_C14 ==
  \A b \in 1..Len(builds) :
    builds[b].files # << >> =>
      /\ builds[b].pc \in { "bundle", "returned", "threw" }
      /\ Len(builds[b].entrypoints) = Len(builds[b].files)
      /\ \A i \in 1..Len(builds[b].files) :
           /\ builds[b].entrypoints[i] = Slice(Md5Hex(builds[b].files[i]), 0, 8)
           /\ WarnedIfShared(builds[b].files, builds[b].console, Basename(builds[b].files[i]))
      /\ (builds[b].pc = "returned" /\ builds[b].success) =>
           /\ Len(builds[b].outputs) = Len(builds[b].files)
           /\ \A i \in 1..Len(builds[b].files) :
                builds[b].outputs[i].module.imports = builds[b].files[i]

\* a build of /a/u/C.island.tsx and /a/C.island.tsx that warned and succeeded
Witness_C14 ==
  \E b \in 1..Len(builds) :
    /\ builds[b].files = << SUBCOUNTER, COUNTER >>
    /\ builds[b].pc = "returned"
    /\ builds[b].success
    /\ Len(WarningsFor(builds[b].console, Basename(COUNTER))) = 1

\* ---- the island build on an empty scan --------------------------------------

\* build b is past its scan and the scan found no file
ScannedNothing(b) == builds[b].pc # "scan" /\ builds[b].files = << >>

\* C15: when the glob matches no file, buildIslands calls no bundler and
\* returns without error: no entrypoint, no output, no warning and no error on
\* the console, and the hook that awaited the build goes on.
Theorem_C15 ==
  \A b \in 1..Len(builds) :
    /\ builds[b].pc \in { "bundle", "threw" } => builds[b].files # << >>
    /\ ScannedNothing(b) =>
         /\ builds[b].pc = "returned"
         /\ builds[b].entrypoints = << >>
         /\ builds[b].outputs = << >>
         /\ \A n \in 1..Len(builds[b].console) : builds[b].console[n].level = "log"
         /\ \A c \in 1..Len(calls) :
              calls[c].build = b => calls[c].pc \in { "awaitBuild", "ensured", "done" }

\* an onLoad call that started the build, whose scan found nothing, and went
\* on to transform its file
Witness_C15 ==
  \E b \in 1..Len(builds) : \E c \in 1..Len(calls) :
    /\ ScannedNothing(b)
    /\ calls[c].build = b
    /\ calls[c].hook = "onLoad"
    /\ calls[c].pc = "done"

\* ---- the island build when the bundler fails --------------------------------

\* Bun.build of build b returned with success = false
BundlerFailed(b) == builds[b].pc = "returned" /\ ~builds[b].success

\* C16: when the bundler reports failure, buildIslands logs the failure on
\* console.error and returns normally: the ensureIslands call that awaited it
\* is not rejected, and an onLoad hook goes on to transform its file.
Theorem_C16 ==
  \A b \in 1..Len(builds) :
    BundlerFailed(b) =>
      /\ builds[b].console # << >>
      /\ builds[b].console[Len(builds[b].console)].level = "error"
      /\ Cardinality({ n \in 1..Len(builds[b].console) : builds[b].console[n].level = "error" }) = 1
      /\ \A c \in 1..Len(calls) :
           calls[c].build = b =>
             /\ calls[c].pc \in { "awaitBuild", "ensured", "done" }
             /\ (calls[c].pc = "done" /\ calls[c].hook = "onLoad") => calls[c].result.ok

\* an onLoad call that awaited a failed build and returned its transformed file
Witness_C16 ==
  \E b \in 1..Len(builds) : \E c \in 1..Len(calls) :
    /\ BundlerFailed(b)
    /\ calls[c].build = b
    /\ calls[c].hook = "onLoad"
    /\ calls[c].pc = "done"
    /\ calls[c].result.generate = "ssr"

\* ---- the props of a placeholder ---------------------------------------------

\* the object handed to __seroval_serialize in the data-props of a placeholder
PropsAt(i) ==
  OutAt(i).attributes[CHOOSE n \in 1..Len(OutAt(i).attributes) :
                        OutAt(i).attributes[n].name = DATA_PROPS].value.expression.arguments[1]

\* the props object carries the attribute a of the usage
Carries(props, a) ==
  \E n \in 1..Len(props.properties) :
    IF a.type = "JSXAttribute"
      THEN /\ props.properties[n].type = "ObjectProperty"
           /\ props.properties[n].key = Identifier(a.name)
           /\ props.properties[n].value =
                (IF a.value.type = "JSXExpressionContainer" THEN a.value.expression
                 ELSE IF a.value.type = "null" THEN [type |-> "BooleanLiteral", value |-> TRUE]
                 ELSE a.value)
      ELSE /\ props.properties[n].type = "SpreadElement"
           /\ props.properties[n].argument = a.argument

\* C17: the props object serialized into data-props carries every attribute
\* of the usage: a named attribute under its name with its value expression,
\* a boolean shorthand as true, a spread attribute as its expression.
Claim_C17 ==
  SsrDone =>
    \A i \in 1..NumSites :
      IsPlaceholder(OutAt(i)) =>
        \A n \in 1..Len(UsageAt(i).attributes) :
          Carries(PropsAt(i), UsageAt(i).attributes[n])

\* statement k imports an island/client module
ImportsComponent(k) == IsImport(tIn.source[k]) /\ getComponentType(tIn.source[k].source) # "null"

\* the warning for the import in statement k: parent class, child class, child source
NestingWarning(k) ==
  [parent |-> getComponentType(tIn.filename),
   child  |-> getComponentType(tIn.source[k].source),
   source |-> tIn.source[k].source]

\* C19: in SSR mode, when the file transformed is itself an island or client
\* file and imports another island/client module, the transform warns with
\* the parent class, the child class and the child source, does not abort and
\* still wraps the usages of the import in a placeholder; for a regular file
\* there is no such warning.
Claim_C19 ==
  SsrDone =>
    /\ getComponentType(tIn.filename) # "null" =>
          \A k \in 1..Len(tIn.source) : ImportsComponent(k) =>
            /\ \E w \in 1..Len(tOut.warnings) : tOut.warnings[w] = NestingWarning(k)
            /\ tOut.ok
            /\ IsDefaultImport(tIn.source[k]) =>
                  \A i \in 1..NumSites :
                    LocalOf(tIn.source[k]) = UsageAt(i).name => IsPlaceholder(OutAt(i))
    /\ getComponentType(tIn.filename) = "null" => tOut.warnings = << >>

\* the user middlewares and the final handler the route was built with
RouteMiddlewares == SelectSeq(honoRun.handlers, LAMBDA h : h.kind = "middleware")
RouteHandler == honoRun.handlers[Len(honoRun.handlers)].finalHandler

\* the page options after the given middlewares have run on a page, in order
RECURSIVE PageAfter(_, _)
PageAfter(ms, page) ==
  IF Len(ms) = 0 THEN page
  ELSE PageAfter(Tail(ms),
                 IF Head(ms).does = "title" THEN [page EXCEPT !.title = "Set by middleware"]
                 ELSE IF Head(ms).does = "description"
                   THEN [page EXCEPT !.description = "Set by middleware"]
                 ELSE IF Head(ms).does = "set"
                   THEN [type |-> "object", title |-> "Set", description |-> "undefined"]
                 ELSE page)

\* the page options the template is to see: an empty object, changed by the
\* middlewares in order and then by the handler
ExpectedPage ==
  IF RouteHandler.title = "undefined"
    THEN PageAfter(RouteMiddlewares, [type |-> "object", title |-> "undefined", description |-> "undefined"])
  ELSE [PageAfter(RouteMiddlewares, [type |-> "object", title |-> "undefined", description |-> "undefined"])
          EXCEPT !.title = RouteHandler.title]

\* every user middleware called next(), and the wrapped handler has answered
HandlerAnswered ==
  /\ honoRun.state = "done"
  /\ \A i \in 1..Len(RouteMiddlewares) : RouteMiddlewares[i].does # "respond"

\* C20: in a Hono route built with ssr(...middlewares, handler) the page
\* middleware runs before every user middleware and the handler, so each of them
\* finds an object under "page"; a Response returned by the handler is the
\* answer, unchanged, and html() is not called; otherwise html() is called
\* exactly once, with the element the handler returned and the page object as
\* the middlewares and the handler left it.
Theorem_C20 ==
  honoRun.state # "none" =>
    /\ honoRun.state # "threw"
    /\ \A i \in 1..Len(honoRun.seen) : honoRun.seen[i].type = "object"
    /\ Len(honoRun.htmlCalls) <= 1
    /\ HandlerAnswered =>
          /\ Len(honoRun.seen) = Len(RouteMiddlewares) + 1
          /\ IF RouteHandler.returns.type = "Response"
               THEN /\ honoRun.response = RouteHandler.returns
                    /\ honoRun.htmlCalls = << >>
             ELSE honoRun.htmlCalls = << [element |-> RouteHandler.returns, options |-> ExpectedPage] >>

\* a route with two middlewares that set options and a handler that sets the
\* title and returns an element has answered through html()
Witness_C20 ==
  /\ HandlerAnswered
  /\ Len(RouteMiddlewares) = 2
  /\ RouteMiddlewares[1].does = "title"
  /\ RouteMiddlewares[2].does = "description"
  /\ RouteHandler.title = "Home"
  /\ Len(honoRun.htmlCalls) = 1
  /\ honoRun.htmlCalls[1].options.title = "Home"
  /\ honoRun.htmlCalls[1].options.description = "Set by middleware"

\* the bindings the import visitor has recorded when the traversal of the file ends
RecordedImports == componentWrapperPlugin(tIn.source, tIn.filename, tIn.dev).componentImports

\* statement k is a named or namespace import of an island/client module
ImportsWithoutDefault(k) == ImportsComponent(k) /\ ~IsDefaultImport(tIn.source[k])

\* a site as the transform left it: the same element, not a placeholder
UnwrappedSite(site) ==
  /\ IsElement(site.out)
  /\ site.out.name = site.usage.name
  /\ Len(site.out.attributes) = Len(site.usage.attributes)
  /\ Len(site.out.children) = Len(site.usage.children)

\* of the imports of island/client modules in source exactly the default
\* imports are in recorded, and the sites show it
DefaultOnly(source, recorded, sites) ==
  \A k \in 1..Len(source) :
    /\ ImportsWithoutDefault(k) =>
          /\ ~MapHas(recorded, LocalOf(source[k]))
          /\ \A i \in 1..Len(sites) :
                sites[i].usage.name = LocalOf(source[k]) => UnwrappedSite(sites[i])
    /\ (ImportsComponent(k) /\ IsDefaultImport(source[k])) =>
          /\ MapHas(recorded, LocalOf(source[k]))
          /\ MapGet(recorded, LocalOf(source[k])).type = getComponentType(source[k].source)
          /\ ImportedAbove(k) =>
                \A i \in 1..Len(sites) :
                  sites[i].usage.name = LocalOf(source[k]) => IsPlaceholder(sites[i].out)

\* C21: only the default import binding of an island/client module is
\* recorded: a usage of a name bound by a named or namespace import of such a
\* module is never wrapped, and a default import is recorded under whatever
\* local name it has (and its usages below it are wrapped).
Theorem_C21 ==
  SsrDone => DefaultOnly(tIn.source, RecordedImports, Sites)

\* a file whose named import of an island module stands above a usage of the
\* name, next to a default import whose usage is wrapped
Witness_C21 ==
  /\ SsrDone
  /\ \E k, l \in 1..Len(tIn.source) : \E i, j \in 1..NumSites :
       /\ ImportsWithoutDefault(k)
       /\ tIn.source[k].specifiers[1].type = "ImportSpecifier"
       /\ tIn.source[Len(tIn.source)].type = "ExportDefault"
       /\ UsageAt(i).name = LocalOf(tIn.source[k])
       /\ Unwrapped(i)
       /\ ImportedAbove(l)
       /\ UsageAt(j).name = LocalOf(tIn.source[l])
       /\ IsPlaceholder(OutAt(j))

\* C22: hash returns exactly eight characters from 0-9a-f, so every
\* entrypoint name buildIslands hands to the bundler matches the resolve filter
\* of the virtual modules and is resolved into the island namespace, not
\* looked up on the file system.
Theorem_C22 ==
  \A b \in 1..Len(builds) :
    /\ Len(builds[b].entrypoints) = Len(builds[b].components)
    /\ \A i \in 1..Len(builds[b].entrypoints) :
         /\ builds[b].entrypoints[i] = builds[b].components[i].id
         /\ Len(builds[b].entrypoints[i]) = 8
         /\ \A n \in 1..Len(builds[b].entrypoints[i]) :
              builds[b].entrypoints[i][n] \in
                { "0", "1", "2", "3", "4", "5", "6", "7", "8", "9", "a", "b", "c", "d", "e", "f" }
    /\ \A i \in 1..Len(builds[b].outputs) :
         /\ builds[b].outputs[i].virtual
         /\ ~builds[b].outputs[i].module.empty

\* a build of two files that handed two entrypoints to the bundler and wrote
\* their bundles
Witness_C22 ==
  \E b \in 1..Len(builds) :
    /\ Len(builds[b].entrypoints) = 2
    /\ Len(builds[b].outputs) = 2
    /\ builds[b].outputs[1].virtual
    /\ builds[b].outputs[2].virtual

\* ---- one placeholder per usage ------------------------------------------------

\* the usages of recorded names in a source tree that stand in no other such
\* usage, neither among its children nor in its attribute values
RECURSIVE OutermostUsages(_)
OutermostUsages(node) ==
  IF ~IsElement(node) THEN 0
  ELSE IF IsRecorded(node.name) THEN 1
  ELSE Len(SelectSeq(ElementsOf(node), LAMBDA e : IsRecorded(e.name)))
       - Len(SelectSeq(ElementsOf(node),
                       LAMBDA e : IsRecorded(e.name)
                                  /\ \E o \in 1..Len(ElementsOf(node)) :
                                       /\ IsRecorded(ElementsOf(node)[o].name)
                                       /\ ElementsOf(node)[o] # e
                                       /\ \E n \in 1..Len(ElementsOf(ElementsOf(node)[o])) :
                                            ElementsOf(ElementsOf(node)[o])[n] = e))

\* C23: the SSR transform ends on every input and puts exactly one
\* placeholder in the place of each matching usage: the usage put back as the
\* child of an island placeholder is as it was, not wrapped again, and the
\* island/client usages inside a replaced usage, among its children or in its
\* attribute values, are not wrapped.
Theorem_C23 ==
  SsrDone =>
    /\ Len(PlaceholdersOf(OutTree)) = OutermostUsages(InTree)
    /\ \A i \in 1..NumSites :
         IsPlaceholder(OutAt(i)) =>
           /\ OutAt(i).children =
                (IF OutAt(i).name = SOLID_ISLAND THEN << UsageAt(i) >> ELSE << >>)
           /\ PlaceholdersOf(OutAt(i)) = << OutAt(i) >>
           /\ \A n \in 1..Len(UsageAt(i).attributes) :
                UsageAt(i).attributes[n].type = "JSXAttribute"
                  => Carries(PropsAt(i), UsageAt(i).attributes[n])

\* an island usage replaced by a placeholder, with a usage of a second
\* recorded component among its children and in an attribute value
Witness_C23 ==
  /\ SsrDone
  /\ \E i \in 1..NumSites :
       /\ OutAt(i).name = SOLID_ISLAND
       /\ \E c \in 1..Len(UsageAt(i).children) :
            IsElement(UsageAt(i).children[c]) /\ IsRecorded(UsageAt(i).children[c].name)
       /\ \E n \in 1..Len(UsageAt(i).attributes) :
            /\ UsageAt(i).attributes[n].type = "JSXAttribute"
            /\ UsageAt(i).attributes[n].value.type = "JSXExpressionContainer"
            /\ IsElement(UsageAt(i).attributes[n].value.expression)
            /\ IsRecorded(UsageAt(i).attributes[n].value.expression.name)

\* C24: every usage of an island/client default import is wrapped wherever
\* the import declaration stands in the file, above the usage or below it.
Claim_C24 ==
  SsrDone =>
    \A k \in 1..Len(tIn.source) :
      (IsDefaultImport(tIn.source[k]) /\ ImportsComponent(k)) =>
        \A i \in 1..NumSites :
          UsageAt(i).name = LocalOf(tIn.source[k]) => IsPlaceholder(OutAt(i))

\* ---- hydration ------------------------------------------------------------------

\* every script of the page has run
AllRan == pageDom.state = "loaded" /\ \A n \in 1..Len(pageDom.scripts) : pageDom.scripts[n] \in pageDom.ran

\* the tag and data-id of node d are those the selector of the bundle's
\* component names
MatchesBundle(d, bundle) ==
  /\ pageDom.nodes[d].id = bundle
  /\ pageDom.nodes[d].tag =
       (IF buildGetComponentType(pageDom.nodes[d].file) = "island" THEN SOLID_ISLAND ELSE SOLID_CLIENT)

\* C25: in whatever order the bundles of a page run, each placeholder ends
\* up emptied and mounted exactly once, with its own component and the props
\* of its own data-props, and the bundle of an id touches only nodes whose tag
\* and data-id its selector matches.
Claim_C25 ==
  pageDom.state = "loaded" =>
    /\ \A n \in 1..Len(pageDom.log) : MatchesBundle(pageDom.log[n].node, pageDom.log[n].bundle)
    /\ AllRan =>
         \A d \in 1..Len(pageDom.nodes) :
           /\ pageDom.nodes[d].cleared
           /\ pageDom.nodes[d].mounts =
                << [component |-> pageDom.nodes[d].file, props |-> pageDom.nodes[d].props] >>

\* C26: whenever ensureIslands has returned to a caller the island build is
\* over: no onLoad hook goes on to transform its file, or hands back the
\* transformed contents, while the buildIslands call started by another hook
\* invocation is still running.
Claim_C26 ==
  \A c \in 1..Len(calls) :
    (calls[c].hook = "onLoad" /\ calls[c].pc \in { "ensured", "done" }) =>
      \A b \in 1..Len(builds) : builds[b].pc \in { "returned", "threw" }

\* the elements renderToString writes out: the tree without what stands in
\* attribute values
RECURSIVE RenderedElements(_)
RenderedElements(node) ==
  IF ~IsElement(node) THEN << >>
  ELSE << node >> \o Concat([i \in 1..Len(node.children) |-> RenderedElements(node.children[i])])

RenderedPlaceholders(node) == SelectSeq(RenderedElements(node), IsPlaceholder)

HasScript(scripts, id) == \E i \in 1..Len(scripts) : At(scripts, i, ScriptTag(id))

AllScanned(placeholders, page) ==
  \A n \in 1..Len(placeholders) :
    /\ placeholders[n].attributes[1].name = DATA_ID
    /\ \A a \in 2..Len(placeholders[n].attributes) :
         placeholders[n].attributes[a].name \in { DATA_PROPS, DATA_FILE }
    /\ HasScript(page.scripts, DataIdOf(placeholders[n]))

\* C27: every placeholder the SSR transform emits is found by the scan of
\* html(): data-id is the first of its attributes, ahead of data-props and
\* data-file, so the page that renders the transformed tree carries the script
\* tag of every placeholder in it.
Theorem_C27 ==
  SsrDone => AllScanned(RenderedPlaceholders(OutTree), html(OutTree, tIn.dev))

\* a dev-mode file whose rendered tree holds an island placeholder and a client
\* placeholder, each with data-id, data-props and data-file
Witness_C27 ==
  /\ SsrDone
  /\ tIn.dev
  /\ \E i, j \in 1..Len(RenderedPlaceholders(OutTree)) :
       /\ RenderedPlaceholders(OutTree)[i].name = SOLID_ISLAND
       /\ RenderedPlaceholders(OutTree)[j].name = SOLID_CLIENT
       /\ Len(RenderedPlaceholders(OutTree)[i].attributes) = 3
       /\ HasScript(html(OutTree, tIn.dev).scripts, DataIdOf(RenderedPlaceholders(OutTree)[j]))

\* the components buildIslands discovers for the files of the page
PageComponents == Components(FilesOf(pageDom.nodes, << >>))

OwnModule(components, loaded) ==
  \A i \in 1..Len(components) :
    components[i].id \in loaded =>
      /\ ~HydrationModule(components, components[i].id).empty
      /\ HydrationModule(components, components[i].id).imports = components[i].path
      /\ HydrationModule(components, components[i].id).selector = components[i].selector

\* C28: for every discovered component c the hydration module loaded for the
\* entrypoint c.id, the one the browser runs as <c.id>.js, imports c.path and
\* queries c.selector, also for each of two components whose ids are equal.
Claim_C28 == pageDom.state = "loaded" => OwnModule(PageComponents, pageDom.ran)

\* ---- the dev client ------------------------------------------------------------

\* C29: once the user has switched auto reload off, location.reload() is not
\* called until it is switched on again, however toggles, EventSource errors,
\* timer ticks and pending ping responses interleave: no reload happens while
\* settings.autoReload is false.
Claim_C29 == liveReload.state = "running" => liveReload.lastReload # "off"

\* C30: after any sequence of toggles, EventSource errors and pagehide
\* events at most one EventSource is open and at most one ping interval is
\* scheduled, never both at once, and neither is active while auto reload is
\* off, right after pagehide, or while the page is hidden.
Theorem_C30 ==
  liveReload.state = "running" =>
    /\ liveReload.sources <= 1
    /\ liveReload.timers <= 1
    /\ liveReload.sources + liveReload.timers <= 1
    /\ liveReload.es <=> (liveReload.sources = 1)
    /\ liveReload.interval <=> (liveReload.timers = 1)
    /\ (~liveReload.autoReload \/ liveReload.hidden \/ liveReload.last = "pagehide")
         => (liveReload.sources = 0 /\ liveReload.timers = 0)

\* the connection was lost (the badge reads [...]), the client polled and had a
\* ping in flight, and then the user switched auto reload off
Witness_C30 ==
  /\ liveReload.state = "running"
  /\ ~liveReload.autoReload
  /\ liveReload.badge = "[...]"
  /\ liveReload.pending > 0
  /\ liveReload.last = "change"

====
